---- MODULE Spec2Model ----
(***************************************************************************)
(* Model of the asynchronous job lifecycle of ComfyUI-Livepeer:            *)
(*   - LivepeerBase.execute_with_retry and its worker thread               *)
(*     (src/src/livepeer_base.py),                                         *)
(*   - the global job store, the background execution thread and the       *)
(*     submit entry points (src/src/livepeer_base.py, src/node_wrappers),  *)
(*   - LivepeerJobGetterBase (src/src/livepeer_job_getter.py).             *)
(***************************************************************************)
EXTENDS Integers, Sequences, FiniteSets, TLC

\* ------------------------------------------------------------------------
\* Bounds of the model
\* ------------------------------------------------------------------------
MaxRetries == 2

\* ------------------------------------------------------------------------
\* Values: responses, None, exceptions and strings.  Every value is a record
\* with the same fields; kind tells what it is, text is the message template
\* of an exception or string, inv the operation invocation it came from, and
\* n / lastText / lastInv the interpolated parts of the exhausted-retry
\* message "Operation failed after {n} attempts. Last error: {str(last)}".
\* ------------------------------------------------------------------------
V(kind, text, inv) ==
    [kind |-> kind, text |-> text, inv |-> inv, n |-> 0, lastText |-> "", lastInv |-> 0]

None == V("None", "", 0)

Response(i) == V("Response", "", i)

OpError(i) == V("OpError", "operation error", i)

InterruptProcessingException(text) == V("InterruptProcessingException", text, 0)

TimeoutError == V("TimeoutError", "Operation timed out", 0)

UnknownError ==
    V("RuntimeError", "Unknown error: Operation thread finished but provided no result or error.", 0)

\* str(e): the message of an exception as a string value
Str(e) == [e EXCEPT !.kind = "str"]

\* RuntimeError(msg) for a string msg; Str(RuntimeError(msg)) = msg
RuntimeError(msg) == [msg EXCEPT !.kind = "RuntimeError"]

\* f"Operation failed after {max_retries} attempts. Last error: {str(last_error)}"
error_msg(max_retries, last_error) ==
    [kind |-> "str", text |-> "Operation failed after", inv |-> 0, n |-> max_retries,
     lastText |-> Str(last_error).text, lastInv |-> Str(last_error).inv]

\* the string msg contains the message of the error e
Contains(msg, e) == msg.lastText = e.text /\ msg.lastInv = e.inv

\* v is the exhausted-retry error or its message
Exhausted(v) == v.text = "Operation failed after"

\* Python truthiness of result_container['error'] (None or an exception)
Truthy(v) == v.kind # "None"

\* ------------------------------------------------------------------------
\* config_manager.handle_error: raise_error is "None", "True" or "False";
\* te is the configured error_handling.throw_errors
\* ------------------------------------------------------------------------
handle_error(error, raise_error, te) ==
    LET should_raise == IF raise_error # "None" THEN raise_error = "True" ELSE te
    IN  IF should_raise THEN [raised |-> TRUE, value |-> error]
        ELSE [raised |-> FALSE, value |-> Str(error)]

\* ------------------------------------------------------------------------
\* One call of execute_with_retry as a record c, and its steps as operators
\* from (c, intr) to the set of successor records; intr is the host's
\* cancellation flag comfy.model_management.processing_interrupted().
\* Fields seen*, starts, opCalls, opRaised, opOk, okResp, timeouts, accepted
\* and writer are history fields: they record what happened and are never
\* read by a step.  writer is the attempt whose worker wrote the result
\* container the caller holds (0: nobody yet).
\* ------------------------------------------------------------------------
\* the configured retry_delay, and the time a time.sleep(0.1) of the delay
\* loop can take, in units of the shortest such sleep
RetryDelay == 4

SleepTimes == {1, 2}

\* current_retry_delay is the float retry_delay * 1.5^k kept exactly as the
\* fraction num / den; elapsed is time.time() - delay_start_time as the
\* delay loop last saw it
NewCall(n) ==
    [pc |-> "loop", max_retries |-> n, attempts |-> 0, last_error |-> None,
     current_retry_delay |-> [num |-> RetryDelay, den |-> 1], elapsed |-> 0,
     worker |-> "none", workerInv |-> 0, done |-> FALSE, result |-> None, error |-> None,
     timed_out |-> FALSE, cancelled_during_poll |-> FALSE, backoffs |-> 0,
     retKind |-> "none", ret |-> None,
     lateSpawned |-> 0, lateRunning |-> 0,
     starts |-> 0, opCalls |-> 0, opRaised |-> 0, opOk |-> FALSE, okResp |-> None,
     timeouts |-> 0, accepted |-> FALSE, writer |-> 0,
     seen |-> "", seenAttempts |-> 0, seenStarts |-> 0]

NoCall == [NewCall(1) EXCEPT !.pc = "idle"]

Terminal(c) == c.pc \in {"returned", "raised"}

Raise(c, e) == [c EXCEPT !.pc = "raised", !.retKind = "raise", !.ret = e]

Return(c, v) == [c EXCEPT !.pc = "returned", !.retKind = "return", !.ret = v]

\* history: the first point at which the raised flag was observed by the
\* caller, or by the worker of the attempt the caller is polling
Observe(c, where) ==
    IF c.seen = "" THEN [c EXCEPT !.seen = where, !.seenAttempts = c.attempts,
                                  !.seenStarts = c.starts]
    ELSE c

\* lines 133-149: loop head with budget left: check_interrupt, then a fresh
\* result container and a new worker thread
AttemptStart(c, intr) ==
    IF c.pc = "loop" /\ c.attempts < c.max_retries
    THEN IF intr
         THEN {Raise(Observe(c, "start"),
                     InterruptProcessingException("Operation cancelled by user"))}
         ELSE {[c EXCEPT !.pc = "poll", !.worker = "spawned", !.done = FALSE,
                         !.result = None, !.error = None,
                         !.timed_out = FALSE, !.cancelled_during_poll = FALSE,
                         !.starts = @ + 1, !.writer = 0,
                         !.lateSpawned = @ + (IF c.worker = "spawned" THEN 1 ELSE 0),
                         !.lateRunning = @ + (IF c.worker = "running" THEN 1 ELSE 0)]}
    ELSE {}

\* lines 229-234: the loop ended with the budget used up
RetriesExhausted(c, te) ==
    IF c.pc = "loop" /\ ~(c.attempts < c.max_retries)
    THEN LET h == handle_error(RuntimeError(error_msg(c.max_retries, c.last_error)),
                               "None", te)
         IN  {IF h.raised THEN Raise(c, h.value) ELSE Return(c, h.value)}
    ELSE {}

\* line 152: the poll loop sees result_container['done']
PollDone(c) ==
    IF c.pc = "poll" /\ c.done THEN {[c EXCEPT !.pc = "after_poll"]} ELSE {}

\* lines 154-163: the poll loop observes the flag
PollInterrupt(c, intr) ==
    IF c.pc = "poll" /\ ~c.done /\ intr
    THEN {[Observe(c, "poll") EXCEPT
              !.pc = "after_poll",
              !.last_error = InterruptProcessingException("Operation cancelled by user"),
              !.cancelled_during_poll = TRUE]}
    ELSE {}

\* a poll loop without the timeout test of lines 165-170
PollTimeoutNever(c, intr) == {}

\* lines 165-170: the per-attempt timeout has elapsed
PollTimeout(c, intr) ==
    IF c.pc = "poll" /\ ~c.done /\ ~intr
    THEN {[c EXCEPT !.pc = "after_poll", !.timed_out = TRUE]}
    ELSE {}

\* lines 193-207 without the return of line 200: a response is counted as a
\* failed attempt
ProcessResultNoReturn(c) ==
    IF c.timed_out
    THEN {[c EXCEPT !.pc = "final_check", !.last_error = TimeoutError,
                    !.attempts = @ + 1, !.timeouts = @ + 1]}
    ELSE IF Truthy(c.error)
    THEN {[c EXCEPT !.pc = "final_check", !.attempts = @ + 1, !.last_error = c.error]}
    ELSE {[c EXCEPT !.pc = "final_check", !.attempts = @ + 1, !.last_error = UnknownError]}

\* lines 193-207: the outcome of the attempt
ProcessResult(c) ==
    IF c.timed_out
    THEN {[c EXCEPT !.pc = "final_check", !.last_error = TimeoutError,
                    !.attempts = @ + 1, !.timeouts = @ + 1]}
    ELSE IF Truthy(c.error)
    THEN {[c EXCEPT !.pc = "final_check", !.attempts = @ + 1, !.last_error = c.error]}
    ELSE IF c.result.kind # "None"
    THEN {Return([c EXCEPT !.accepted = TRUE], c.result)}
    ELSE {[c EXCEPT !.pc = "final_check", !.attempts = @ + 1, !.last_error = UnknownError]}

\* AfterPoll without lines 178-179 and 182-187: the loop's cancellation is
\* not raised and the flag is not checked again
AfterPollNoCancel(c, intr) ==
    IF c.pc = "after_poll" THEN ProcessResult(c) ELSE {}

\* AfterPoll without lines 182-187: the flag is not checked again after the
\* poll loop
AfterPollNoRecheck(c, intr) ==
    IF c.pc = "after_poll"
    THEN IF c.cancelled_during_poll THEN {Raise(c, c.last_error)} ELSE ProcessResult(c)
    ELSE {}

\* lines 177-207: after the poll loop: a cancellation seen in the loop is
\* raised, the flag is checked once more, then the outcome is processed
AfterPoll(c, intr) ==
    IF c.pc = "after_poll"
    THEN IF c.cancelled_during_poll
         THEN {Raise(c, c.last_error)}
         ELSE IF intr
         THEN {Raise(Observe(c, "after_poll"),
                     InterruptProcessingException("Operation cancelled by user"))}
         ELSE ProcessResult(c)
    ELSE {}

\* lines 209-213: final check before a retry is considered
FinalCheck(c, intr) ==
    IF c.pc = "final_check"
    THEN IF intr
         THEN {Raise(Observe(c, "final"),
                     InterruptProcessingException("Operation cancelled by user"))}
         ELSE {[c EXCEPT !.pc = IF c.attempts < c.max_retries THEN "delay" ELSE "loop",
                         !.elapsed = 0]}
    ELSE {}

\* line 217: time.time() - delay_start_time < current_retry_delay
DelayRunning(c) == c.elapsed * c.current_retry_delay.den < c.current_retry_delay.num

\* lines 217-226: one iteration of the retry delay loop: the delay has not
\* elapsed, check_interrupt, then time.sleep(0.1)
DelayCheck(c, intr) ==
    IF c.pc \in {"delay", "delay_sleep"} /\ DelayRunning(c)
    THEN IF intr
         THEN {Raise(Observe(c, "delay"),
                     InterruptProcessingException("Operation cancelled by user"))}
         ELSE {[c EXCEPT !.pc = "delay_sleep", !.elapsed = @ + t] : t \in SleepTimes}
    ELSE {}

\* the end of the delay loop without the backoff of line 227
DelayElapsedConstant(c) ==
    IF c.pc \in {"delay", "delay_sleep"} /\ ~DelayRunning(c)
    THEN {[c EXCEPT !.pc = "loop", !.backoffs = @ + 1]}
    ELSE {}

\* lines 217, 227: the retry delay has elapsed; exponential backoff
DelayElapsed(c) ==
    IF c.pc \in {"delay", "delay_sleep"} /\ ~DelayRunning(c)
    THEN {[c EXCEPT !.pc = "loop", !.backoffs = @ + 1,
                    !.current_retry_delay = [num |-> 3 * @.num, den |-> 2 * @.den]]}
    ELSE {}

\* _run_operation_thread lines 102-110: the worker checks the flag, then
\* invokes the operation
WorkerBegin(c, intr) ==
    IF c.worker = "spawned"
    THEN IF intr
         THEN {[(IF c.pc = "poll" THEN Observe(c, "worker") ELSE c) EXCEPT
                   !.worker = "finished",
                   !.error = InterruptProcessingException("Operation cancelled"),
                   !.done = TRUE, !.writer = c.starts]}
         ELSE {[c EXCEPT !.worker = "running", !.opCalls = @ + 1,
                         !.workerInv = c.opCalls + 1]}
    ELSE {}

\* _run_operation_thread lines 110-116: the operation returns a response or
\* None, or raises; the container is filled and done is set
WorkerFinish(c) ==
    IF c.worker = "running"
    THEN {[c EXCEPT !.worker = "finished", !.result = Response(c.workerInv),
                    !.done = TRUE, !.opOk = TRUE, !.writer = c.starts,
                    !.okResp = IF c.okResp.kind = "None" THEN Response(c.workerInv) ELSE @],
          [c EXCEPT !.worker = "finished", !.result = None, !.done = TRUE,
                    !.writer = c.starts],
          [c EXCEPT !.worker = "finished", !.error = OpError(c.workerInv), !.done = TRUE,
                    !.opRaised = @ + 1, !.writer = c.starts]}
    ELSE {}

\* the worker of an attempt abandoned on timeout goes on in its own thread
\* and writes to its own container
LateWorkerBegin(c, intr) ==
    IF c.lateSpawned > 0
    THEN IF intr
         THEN {[c EXCEPT !.lateSpawned = @ - 1]}
         ELSE {[c EXCEPT !.lateSpawned = @ - 1, !.lateRunning = @ + 1, !.opCalls = @ + 1]}
    ELSE {}

\* the worker of an abandoned attempt finishing with all workers sharing the
\* caller's current result container
LateWorkerFinishShared(c) ==
    IF c.lateRunning > 0
    THEN {[c EXCEPT !.lateRunning = @ - 1, !.result = Response(c.opCalls), !.done = TRUE,
                    !.writer = c.starts - 1]}
    ELSE {}

\* lines 110-116 in the thread of an abandoned attempt: it fills the
\* container it was started with (line 140 makes a new one per attempt),
\* which the caller no longer reads
LateWorkerFinish(c) ==
    IF c.lateRunning > 0 THEN {[c EXCEPT !.lateRunning = @ - 1]} ELSE {}

\* every step of the calling thread and of the worker threads of a call
CallerSteps(c, intr, te) ==
    AttemptStart(c, intr) \cup RetriesExhausted(c, te) \cup PollDone(c)
      \cup PollInterrupt(c, intr) \cup PollTimeout(c, intr) \cup AfterPoll(c, intr)
      \cup FinalCheck(c, intr) \cup DelayCheck(c, intr) \cup DelayElapsed(c)

WorkerSteps(c, intr) ==
    WorkerBegin(c, intr) \cup WorkerFinish(c) \cup LateWorkerBegin(c, intr)
      \cup LateWorkerFinish(c)


\* ------------------------------------------------------------------------
\* execute_with_retry run to its end: the outcomes of a whole call that
\* starts with the flag at intr, under every scheduling of caller, workers
\* and of the user raising the flag.  A run state is [c, intr]; an outcome
\* is how the call ended (retKind, ret), whether it accepted a response of
\* the operation, and the flag at its end.
\* ------------------------------------------------------------------------
RunSucc(s, te) ==
    IF Terminal(s.c) THEN {}
    ELSE {[c |-> c2, intr |-> s.intr] :
              c2 \in CallerSteps(s.c, s.intr, te) \cup WorkerSteps(s.c, s.intr)}
         \cup (IF s.intr THEN {} ELSE {[c |-> s.c, intr |-> TRUE]})

RECURSIVE RunClosure(_, _, _)
RunClosure(frontier, seen, te) ==
    IF frontier = {} THEN seen
    ELSE LET next == UNION {RunSucc(s, te) : s \in frontier} \ seen
         IN  RunClosure(next, seen \cup next, te)

execute_with_retry(n, intr, te) ==
    LET init == [c |-> NewCall(n), intr |-> intr]
    IN  {[retKind |-> s.c.retKind, ret |-> s.c.ret, accepted |-> s.c.accepted,
          intr |-> s.intr] :
            s \in {t \in RunClosure({init}, {init}, te) : Terminal(t.c)}}

RunTable ==
    [n \in 1..MaxRetries, i \in BOOLEAN, te \in BOOLEAN |-> execute_with_retry(n, i, te)]

\* ------------------------------------------------------------------------
\* The job store, submitters and getters
\* ------------------------------------------------------------------------
MaxJobs == 1

JobIds == 1..MaxJobs

\* nextId numbers the invocations of the submit entry points; an invocation
\* that creates a record uses its number as the fresh uuid4 of the record

\* a job id that is None or empty
NoId == 0

\* the key job_info.get('job_id', 'N/A') of a stored record
NA == -1

Absent == V("absent", "", 0)

PyTrue == V("True", "", 0)

PyFalse == V("False", "", 0)

BLANK_IMAGE == V("BLANK_IMAGE", "", 0)

EmptyStr == V("str", "", 0)

Msg(text) == V("str", text, 0)

AllKeys == {"processed_image_output", "processed_image_ready",
            "processed_text_output", "processed_text_ready",
            "processed_video_url", "processed_video_path", "processed_frames",
            "processed_audio", "processed_video_ready",
            "processed_audio_output", "processed_audio_ready",
            "processed_image", "processed_text", "processed_url", "processed_path"}

NoProcessed == [k \in AllKeys |-> Absent]

NoRecord ==
    [status |-> "none", type |-> "", result |-> Absent, error |-> Absent,
     processed |-> NoProcessed]

InStore(s, j) == j \in JobIds /\ s[j].status # "none"

\* _livepeer_job_store.pop(key, None)
Pop(s, key) == IF key \in JobIds THEN [s EXCEPT ![key] = NoRecord] ELSE s

Submitters == {"LivepeerT2I", "LivepeerI2I", "LivepeerI2T"}

\* the submit nodes of the video and audio modalities
MediaSubmitters == {"LivepeerI2V", "LivepeerLive2Video", "LivepeerT2S"}

JOB_TYPE(sub) ==
    CASE sub = "LivepeerT2I" -> "t2i"
      [] sub = "LivepeerI2I" -> "i2i"
      [] sub = "LivepeerI2T" -> "i2t"
      [] sub = "LivepeerI2V" -> "i2v"
      [] sub = "LivepeerLive2Video" -> "live2video"
      [] sub = "LivepeerT2S" -> "t2s"

Getters == {"g1", "g2"}

\* the getter classes of node_wrappers/getters: image.py, text.py, video.py
\* and audio.py, and the four classes of the same names that
\* livepeer_jobgetter.py defines (written "jobgetter.<class>")
ImageGetters == {"LivepeerImageJobGetter", "jobgetter.LivepeerImageJobGetter"}

TextGetters == {"LivepeerTextJobGetter", "jobgetter.LivepeerTextJobGetter"}

VideoGetters == {"LivepeerVideoJobGetter", "jobgetter.LivepeerVideoJobGetter"}

AudioGetters == {"LivepeerAudioJobGetter", "jobgetter.LivepeerAudioJobGetter"}

GetterClasses == ImageGetters \cup TextGetters \cup VideoGetters \cup AudioGetters

EXPECTED_JOB_TYPES(cls) ==
    CASE cls \in ImageGetters -> {"t2i", "i2i", "upscale", "segment"}
      [] cls \in TextGetters -> {"i2t", "llm", "a2t"}
      [] cls = "LivepeerVideoJobGetter" -> {"i2v", "live2v"}
      [] cls = "jobgetter.LivepeerVideoJobGetter" -> {"i2v", "live2video"}
      [] cls \in AudioGetters -> {"t2s"}

PROCESSED_RESULT_KEYS(cls) ==
    CASE cls = "LivepeerImageJobGetter" ->
            <<"processed_image_output", "processed_image_ready">>
      [] cls = "LivepeerTextJobGetter" ->
            <<"processed_text_output", "processed_text_ready">>
      [] cls = "LivepeerVideoJobGetter" ->
            <<"processed_video_url", "processed_video_path", "processed_frames",
              "processed_audio", "processed_video_ready">>
      [] cls = "LivepeerAudioJobGetter" ->
            <<"processed_audio_output", "processed_audio_ready">>
      [] cls = "jobgetter.LivepeerImageJobGetter" -> <<"processed_image">>
      [] cls = "jobgetter.LivepeerTextJobGetter" -> <<"processed_text">>
      [] cls = "jobgetter.LivepeerVideoJobGetter" ->
            <<"processed_url", "processed_path", "processed_frames", "processed_audio">>
      [] cls = "jobgetter.LivepeerAudioJobGetter" ->
            <<"processed_url", "processed_path", "processed_audio">>

DEFAULT_OUTPUTS(cls) ==
    CASE cls \in ImageGetters -> <<BLANK_IMAGE, PyFalse>>
      [] cls \in TextGetters -> <<EmptyStr, PyFalse>>
      [] cls \in VideoGetters -> <<None, None, None, None, PyFalse>>
      [] cls \in AudioGetters -> <<None, PyFalse>>

\* RETURN_TYPES of the class: its own types, then those of the base class
RETURN_TYPES(cls) ==
    CASE cls \in ImageGetters -> <<"IMAGE", "BOOLEAN", "STRING", "STRING">>
      [] cls \in TextGetters -> <<"STRING", "BOOLEAN", "STRING", "STRING">>
      [] cls \in VideoGetters ->
            <<"STRING", "STRING", "IMAGE", "AUDIO", "BOOLEAN", "STRING", "STRING">>
      [] cls \in AudioGetters -> <<"AUDIO", "BOOLEAN", "STRING", "STRING">>

\* the projection of a raw result by _process_raw_result: the decoded image
\* tensor, the extracted text, the video url or the loaded waveform of the
\* response
Decoded(cls, raw) ==
    CASE cls \in ImageGetters -> V("Tensor", "", raw.inv)
      [] cls \in TextGetters -> V("str", "text of response", raw.inv)
      [] cls \in VideoGetters -> V("str", "video url", raw.inv)
      [] cls \in AudioGetters -> V("Audio", "waveform", raw.inv)

\* LivepeerResponseHandler.extract_image_data / extract_text_data: only a
\* response object carries image or text data
HasData(raw) == raw.kind = "Response"

\* _process_raw_result: the outcomes a projection of raw can have.  ok: the
\* outputs and the data to store; none: (None, None); raise: an exception
\* leaves the hook.
ProjError == V("Exception", "projection error", 0)

ProjOutcomes(raw) == IF HasData(raw) THEN {"ok", "none", "raise"} ELSE {"none", "raise"}

\* an exception that _process_raw_result catches in its own handler, such as
\* the I/O error of a media download: the hook logs it and returns
\* (None, None)
CaughtError == V("Exception", "download error", 0)

\* the exception behind an outcome of the projection: none when it
\* succeeded, none or a caught exception when it returned (None, None), and
\* the exception that left the hook when it raised
Causes(proj) ==
    CASE proj = "ok" -> {None}
      [] proj = "none" -> {None, CaughtError}
      [] proj = "raise" -> {ProjError}

\* image.py line 39: whether the decoded image is taller than BLANK_HEIGHT.
\* The size is a property of the response: the responses of odd invocations
\* carry an image of real size, those of even invocations one of
\* placeholder size.
image_ready(raw) == IF raw.inv % 2 = 1 THEN PyTrue ELSE PyFalse

\* the values the flag of a successful projection can take: the readiness
\* of the image, and for video and audio the input download_video or
\* download_audio of the call
Flags(cls, raw) ==
    CASE cls \in ImageGetters -> {image_ready(raw)}
      [] cls \in TextGetters -> {PyTrue}
      [] OTHER -> {PyTrue, PyFalse}

NoInfo == NoRecord

\* ------------------------------------------------------------------------
\* BatchIterator (batch_iterator.py)
\* ------------------------------------------------------------------------
\* the largest images.shape[0] and the number of executions of one object
MaxBatch == 3

MaxRuns == 6

\* the values of id(self): the address of an object, unique among the
\* objects that exist at the same time
Ids == {1, 2}

\* the BatchIterator objects that the host holds
Instances == {"a"}

\* an id that is not a key of _batch_iterators
NoState == [index |-> 0, direction |-> 0, last_batch_size |-> 0]

\* an object that does not exist.  id is id(self); the other fields are
\* history: count is the number of executions of the object, fresh tells
\* that its id was no key of _batch_iterators when it was created, batch_size
\* and bounce_mode are the inputs of its first execution, uniform tells that
\* every execution got these inputs and reset_counter false, returned is
\* the index of the element the last execution returned
NoInstance ==
    [id |-> 0, count |-> 0, fresh |-> FALSE, batch_size |-> 0, bounce_mode |-> FALSE,
     uniform |-> FALSE, returned |-> 0]

\* a node whose IS_CHANGED is not running; job_id is the current_job_id that
\* a running one read from the node state map
NoProbe == [pc |-> "idle", job_id |-> NoId]

IdleGetter ==
    [cls |-> "LivepeerImageJobGetter", pc |-> "idle", job_id |-> NoId, job_info |-> NoInfo,
     last_delivered_id |-> NoId]

NoThread == [pc |-> "none", max_retries |-> 1, job_type |-> "", retKind |-> "none", ret |-> None,
             accepted |-> FALSE]

\* event: what the last step returned to its caller.  kind is "" (nothing
\* returned), "getter" (a getter entry point returned outputs + (status,
\* error)), "submit" (a submit entry point returned or raised: how is "id",
\* "None", "str" or "raise"), "thread" (a background thread finished),
\* "probe" (IS_CHANGED returned value; job_id and status are those of the
\* getter return of the same node that the run of probes follows; how is
\* "first" for the first probe of the run and "again" for the later ones) or
\* "previous" (a getter entry point has been called again with the same id
\* right after it returned: the event is that of the return).  before is,
\* for the return of such a call, what the call before it read and returned.
\* read is the copy of the record a getter call read, proj the outcome of its
\* projection and cause the exception behind that outcome; accepted and ret
\* are the outcome of execute_with_retry.
NoBefore == [status |-> "", outputs |-> <<>>, error |-> None, read |-> NoInfo]

NoEvent ==
    [kind |-> "", who |-> "", job_id |-> NoId, status |-> "", outputs |-> <<>>,
     error |-> None, read |-> NoInfo, proj |-> "", before |-> NoBefore,
     sync |-> FALSE, how |-> "", value |-> None, accepted |-> FALSE, ret |-> None,
     cause |-> None]

\* history: projCount[j] counts the invocations of _process_raw_result for
\* job j; writes[j] lists the status writes made to the stored record of j,
\* each with its writer and the status before and after it;
\* firstDelivery[j] is the tuple of leading outputs of the first getter call
\* that returned delivered for j
Logged(w, j, by, s, s2) ==
    IF InStore(s, j)
    THEN [w EXCEPT ![j] = Append(@, [by |-> by, from |-> s[j].status, to |-> s2[j].status])]
    ELSE w

\* ------------------------------------------------------------------------
\* Locks.  threading.Lock: the holder is the thread that is inside a `with`
\* block of the lock, Free when there is none.  An actor is a thread of the
\* program: a background execution thread, a submit or getter entry point
\* run by the host, the host's probe, the sweep thread or a polling thread
\* of the job service, or a caller of the service.
\* ------------------------------------------------------------------------
Actor(kind, who, id) == [kind |-> kind, who |-> who, id |-> id]

Free == Actor("", "", 0)

\* the holder of a lock when the `with` block of a background thread or of
\* a getter also encloses the slow work that follows it
release_kept(actor) ==
    IF actor.kind \in {"thread", "getter", "poller", "cleanup"} THEN actor ELSE Free

\* the holder of a lock when actor leaves its `with` block
release(actor) == Free

VARIABLES call, interrupted, throw_errors, intrWhen,
          store, nextId, thread, getter, node_state, event, projCount, writes,
          firstDelivery, job_store_lock,
          jobs, sets, now, is_running, cleanup_thread, polling, nextJob, using,
          handed, service_lock,
          node_state_lock, probe,
          batch_iterators, instances

\* the variables of the job service (LivepeerJobService)
svcVars == <<jobs, sets, now, is_running, cleanup_thread, polling, nextJob, using,
             handed, service_lock>>

retryVars == <<call, intrWhen>>

\* _node_state_lock, and the position of each node's IS_CHANGED call when
\* its critical sections are taken one at a time
probeVars == <<node_state_lock, probe>>

\* the module-level dict _batch_iterators of batch_iterator.py and the
\* BatchIterator objects of the host
batchVars == <<batch_iterators, instances>>

jobVars == <<store, nextId, thread, getter, node_state, event, projCount, writes,
             firstDelivery, job_store_lock, svcVars, probeVars, batchVars>>

vars == <<call, interrupted, throw_errors, intrWhen, store, nextId, thread, getter,
          node_state, event, projCount, writes, firstDelivery, job_store_lock, svcVars,
          probeVars, batchVars>>

\* `with _job_store_lock:` run by actor: the lock is free when the block is
\* entered and released when it is left
WithJobStoreLock(actor) ==
    /\ job_store_lock = Free
    /\ job_store_lock' = release(actor)

\* a step of actor that enters a `with _job_store_lock:` block on the paths
\* where enters holds
Locking(actor, enters) ==
    IF enters THEN WithJobStoreLock(actor) ELSE job_store_lock' = job_store_lock

\* the class of getter instance g
GetterClass(g) == getter[g].cls

\* ------------------------------------------------------------------------
\* The job service (LivepeerJobService): its records, the set objects of
\* their nodes_using fields, its clock and its threads
\* ------------------------------------------------------------------------
MaxServiceJobs == 1

\* job ids are uuid4 strings: nextJob numbers the registrations and a
\* registration uses its number as its id
ServiceJobIds == 1..MaxServiceJobs

\* time.time() in units of the expiry time of the sweep (3600 seconds)
MaxTime == 2

EXPIRY == 1

\* node instances (unique ids); None when a call passes no node
Nodes == {"n1"}

NoNode == ""

\* a record of _jobs; status "none" stands for an id that is not a key.
\* nodes_using holds the identity of a set object, sets[ref] its elements:
\* the set of the record registered as job j is object j.  processed tells
\* whether update_processed_data merged its processed_data.
NoJob ==
    [status |-> "none", type |-> "", result |-> Absent, error |-> Absent,
     last_updated |-> 0, nodes_using |-> 0, processed |-> FALSE]

InJobs(js, j) == j \in ServiceJobIds /\ js[j].status # "none"

\* a polling thread (_poll_job_status): its position and the outcome of its
\* execute_with_retry
NoPoll == [pc |-> "", retKind |-> "", ret |-> None]

NoDict == [job_id |-> NoId, data |-> NoJob]

\* LivepeerJobService.__init__, and the module's singleton: empty maps, the
\* running flag set and the cleanup thread started.  using[j] is history:
\* the nodes that get_job_status / get_job_data added to job j and that
\* remove_node_from_job has not removed since.  handed is the dict that
\* get_job_data returned to its caller, with the id it was asked for, until
\* the caller calls the service again.
InitService ==
    /\ jobs = [j \in ServiceJobIds |-> NoJob]
    /\ sets = [j \in ServiceJobIds |-> {}]
    /\ now = 0
    /\ is_running = TRUE
    /\ cleanup_thread = "pass"
    /\ polling = [j \in ServiceJobIds |-> NoPoll]
    /\ nextJob = 1
    /\ using = [j \in ServiceJobIds |-> {}]
    /\ handed = NoDict
    /\ service_lock = Free

InitJobs ==
    /\ store = [j \in JobIds |-> NoRecord]
    /\ nextId = 1
    /\ thread = [j \in JobIds |-> NoThread]
    /\ node_state = [g \in Getters |-> NoId]
    /\ event = NoEvent
    /\ projCount = [j \in JobIds |-> 0]
    /\ writes = [j \in JobIds |-> <<>>]
    /\ firstDelivery = [j \in JobIds |-> <<>>]
    /\ job_store_lock = Free
    /\ node_state_lock = Free
    /\ probe = [g \in Getters |-> NoProbe]
    /\ batch_iterators = [id \in Ids |-> NoState]
    /\ instances = [i \in Instances |-> NoInstance]
    /\ InitService

\* ------------------------------------------------------------------------
\* SpecRetry: one call of execute_with_retry, its workers and the host flag
\* ------------------------------------------------------------------------
NotInterrupted == [pc |-> "", starts |-> 0]

InitRetry ==
    /\ \E n \in 1..MaxRetries : call = NewCall(n)
    /\ throw_errors \in BOOLEAN
    /\ interrupted = FALSE
    /\ intrWhen = NotInterrupted
    /\ getter = [g \in Getters |-> IdleGetter]
    /\ InitJobs

CallStep(S) ==
    /\ \E c2 \in S : call' = c2
    /\ UNCHANGED <<interrupted, throw_errors, intrWhen>>
    /\ UNCHANGED jobVars

RAttemptStart == CallStep(AttemptStart(call, interrupted))

RRetriesExhausted == CallStep(RetriesExhausted(call, throw_errors))

RPollDone == CallStep(PollDone(call))

RPollInterrupt == CallStep(PollInterrupt(call, interrupted))

RPollTimeout == CallStep(PollTimeout(call, interrupted))

RAfterPoll == CallStep(AfterPoll(call, interrupted))

RFinalCheck == CallStep(FinalCheck(call, interrupted))

RDelayCheck == CallStep(DelayCheck(call, interrupted))

RDelayElapsed == CallStep(DelayElapsed(call))

RWorkerBegin == CallStep(WorkerBegin(call, interrupted))

RWorkerFinish == CallStep(WorkerFinish(call))

RLateWorkerBegin == CallStep(LateWorkerBegin(call, interrupted))

RLateWorkerFinish == CallStep(LateWorkerFinish(call))

\* the user asks the host to stop: the flag is raised and stays raised for
\* the rest of the call (the host lowers it when it starts its next run)
RInterrupt ==
    /\ call.pc # "idle"
    /\ ~interrupted
    /\ interrupted' = TRUE
    /\ intrWhen' = [pc |-> call.pc, starts |-> call.starts]
    /\ UNCHANGED <<call, throw_errors>>
    /\ UNCHANGED jobVars

NextRetry ==
    \/ RAttemptStart
    \/ RRetriesExhausted
    \/ RPollDone
    \/ RPollInterrupt
    \/ RPollTimeout
    \/ RAfterPoll
    \/ RFinalCheck
    \/ RDelayCheck
    \/ RDelayElapsed
    \/ RWorkerBegin
    \/ RWorkerFinish
    \/ RLateWorkerBegin
    \/ RLateWorkerFinish
    \/ RInterrupt

SpecRetry == InitRetry /\ [][NextRetry]_vars

\* a call with one retry more, so that two delays are waited
InitBackoff ==
    /\ call = NewCall(MaxRetries + 1)
    /\ throw_errors \in BOOLEAN
    /\ interrupted = FALSE
    /\ intrWhen = NotInterrupted
    /\ getter = [g \in Getters |-> IdleGetter]
    /\ InitJobs

SpecBackoff == InitBackoff /\ [][NextRetry]_vars

\* the steps of the thread that called execute_with_retry
RCallerThread ==
    \/ RAttemptStart
    \/ RRetriesExhausted
    \/ RPollDone
    \/ RPollInterrupt
    \/ RPollTimeout
    \/ RAfterPoll
    \/ RFinalCheck
    \/ RDelayCheck
    \/ RDelayElapsed

\* the calling thread keeps running and its clocks advance (its sleeps of
\* 0.1 s return, the timeout and the retry delay elapse); nothing is assumed
\* of the worker threads, which may never begin or never finish, nor of the
\* user
SpecRetryFair == SpecRetry /\ WF_vars(RCallerThread)


\* ------------------------------------------------------------------------
\* Spec: submitters, background execution threads and getters on the store
\* ------------------------------------------------------------------------
Init ==
    /\ call = NoCall
    /\ intrWhen = NotInterrupted
    /\ interrupted = FALSE
    /\ throw_errors \in BOOLEAN
    /\ getter = [g \in Getters |-> IdleGetter]
    /\ InitJobs

\* `if not enabled: return (None,)`
SubmitDisabled(sub) ==
    /\ nextId <= MaxJobs
    /\ nextId' = nextId + 1
    /\ event' = [NoEvent EXCEPT !.kind = "submit", !.who = sub, !.how = "None"]
    /\ UNCHANGED <<store, thread, getter, node_state, projCount, writes>>
    /\ UNCHANGED <<interrupted, throw_errors, batchVars, retryVars, probeVars, svcVars>>
    /\ UNCHANGED job_store_lock
    /\ UNCHANGED firstDelivery

\* trigger_async_job: a fresh id (uuid4), a pending record, a daemon thread
trigger_async_job(sub, n) ==
    /\ nextId <= MaxJobs
    /\ store' = [store EXCEPT ![nextId] =
                    [NoRecord EXCEPT !.status = "pending", !.type = JOB_TYPE(sub)]]
    /\ thread' = [thread EXCEPT ![nextId] =
                    [NoThread EXCEPT !.pc = "start", !.max_retries = n,
                                     !.job_type = JOB_TYPE(sub)]]
    /\ nextId' = nextId + 1
    /\ event' = [NoEvent EXCEPT !.kind = "submit", !.who = sub, !.how = "id",
                                 !.job_id = nextId]
    /\ UNCHANGED <<getter, node_state, projCount, writes>>
    /\ UNCHANGED <<interrupted, throw_errors, batchVars, retryVars, probeVars, svcVars>>
    /\ WithJobStoreLock(Actor("submit", sub, 0))
    /\ UNCHANGED firstDelivery

\* _store_sync_result
store_sync_result(s, job_id, job_type, result) ==
    [s EXCEPT ![job_id] = [NoRecord EXCEPT !.status = "completed_pending_delivery",
                                           !.type = job_type, !.result = result]]

\* what the synchronous branch of a submit entry point does with an
\* exception e of execute_with_retry: LivepeerI2I and the video and audio
\* nodes let it leave, LivepeerT2I hands it to handle_error and returns None
\* when that does not raise, LivepeerI2T returns f"Error: {str(e)}"
sync_except(sub, e, te) ==
    CASE sub = "LivepeerI2I" -> [how |-> "raise", value |-> e]
      [] sub = "LivepeerT2I" ->
            IF handle_error(e, "None", te).raised
            THEN [how |-> "raise", value |-> e]
            ELSE [how |-> "None", value |-> None]
      [] sub = "LivepeerI2T" -> [how |-> "str", value |-> Str(e)]
      [] sub \in MediaSubmitters -> [how |-> "raise", value |-> e]

\* the synchronous branch of a submit entry point: execute_with_retry on the
\* calling thread, then a fresh id and _store_sync_result
SubmitSync(sub, n) ==
    \E o \in RunTable[n, interrupted, throw_errors] :
        /\ nextId <= MaxJobs
        /\ nextId' = nextId + 1
        /\ interrupted' = o.intr
        /\ IF o.retKind = "return"
           THEN /\ store' = store_sync_result(store, nextId, JOB_TYPE(sub), o.ret)
                /\ event' = [NoEvent EXCEPT !.kind = "submit", !.who = sub, !.sync = TRUE,
                                             !.how = "id", !.job_id = nextId,
                                             !.accepted = o.accepted]
           ELSE /\ event' =
                      LET x == sync_except(sub, o.ret, throw_errors)
                      IN  [NoEvent EXCEPT !.kind = "submit", !.who = sub, !.sync = TRUE,
                                          !.how = x.how, !.value = x.value]
                /\ UNCHANGED store
        /\ UNCHANGED <<thread, getter, node_state, projCount, writes>>
        /\ UNCHANGED <<throw_errors, batchVars, retryVars, probeVars, svcVars>>
        /\ Locking(Actor("submit", sub, 0), o.retKind = "return")
        /\ UNCHANGED firstDelivery

\* _execute_livepeer_operation lines 47-49: the job type is stored again
ThreadStart(j) ==
    /\ thread[j].pc = "start"
    /\ store' = IF InStore(store, j)
                THEN [store EXCEPT ![j].type = thread[j].job_type] ELSE store
    /\ thread' = [thread EXCEPT ![j].pc = "execute"]
    /\ event' = NoEvent
    /\ UNCHANGED <<nextId, getter, node_state, projCount, writes>>
    /\ UNCHANGED <<interrupted, throw_errors, batchVars, retryVars, probeVars, svcVars>>
    /\ WithJobStoreLock(Actor("thread", "", j))
    /\ UNCHANGED firstDelivery

\* _execute_livepeer_operation line 52: execute_with_retry on the thread
ThreadExecute(j) ==
    /\ thread[j].pc = "execute"
    /\ \E o \in RunTable[thread[j].max_retries, interrupted, throw_errors] :
          /\ thread' = [thread EXCEPT ![j].pc = "store", ![j].retKind = o.retKind,
                                      ![j].ret = o.ret, ![j].accepted = o.accepted]
          /\ interrupted' = o.intr
    /\ event' = NoEvent
    /\ UNCHANGED <<store, nextId, getter, node_state, projCount, writes>>
    /\ UNCHANGED <<throw_errors, batchVars, retryVars, probeVars, svcVars>>
    /\ UNCHANGED job_store_lock
    /\ UNCHANGED firstDelivery

\* the store of the outcome with the status name of the comment at
\* livepeer_job_getter.py line 12 ('completed') for a success
execute_livepeer_operation_store_completed(s, j, t) ==
    IF ~InStore(s, j) THEN s
    ELSE IF t.retKind = "return"
    THEN [s EXCEPT ![j].status = "completed", ![j].result = t.ret]
    ELSE [s EXCEPT ![j].status = "failed", ![j].error = Str(t.ret)]

\* _execute_livepeer_operation lines 54-57 and 58-63: the outcome is stored
\* under the lock if the record is still there
execute_livepeer_operation_store(s, j, t) ==
    IF ~InStore(s, j) THEN s
    ELSE IF t.retKind = "return"
    THEN [s EXCEPT ![j].status = "completed_pending_delivery", ![j].result = t.ret]
    ELSE [s EXCEPT ![j].status = "failed", ![j].error = Str(t.ret)]

ThreadStore(j) ==
    /\ thread[j].pc = "store"
    /\ store' = execute_livepeer_operation_store(store, j, thread[j])
    /\ thread' = [thread EXCEPT ![j] = [NoThread EXCEPT !.pc = "done",
                                                       !.accepted = thread[j].accepted]]
    /\ writes' = Logged(writes, j, "thread", store, store')
    /\ event' = [NoEvent EXCEPT !.kind = "thread", !.job_id = j,
                                 !.accepted = thread[j].accepted,
                                 !.how = thread[j].retKind, !.ret = thread[j].ret]
    /\ UNCHANGED <<nextId, getter, node_state, projCount>>
    /\ UNCHANGED <<interrupted, throw_errors, batchVars, retryVars, probeVars, svcVars>>
    /\ WithJobStoreLock(Actor("thread", "", j))
    /\ UNCHANGED firstDelivery

\* the user asks the host to stop
Interrupt ==
    /\ call.pc = "idle"
    /\ ~interrupted
    /\ interrupted' = TRUE
    /\ event' = NoEvent
    /\ UNCHANGED <<throw_errors, batchVars, retryVars, probeVars, svcVars>>
    /\ UNCHANGED job_store_lock
    /\ UNCHANGED firstDelivery
    /\ UNCHANGED <<store, nextId, thread, getter, node_state, projCount, writes>>

\* dict.get(key): None when the key is absent
Get(v) == IF v.kind = "absent" THEN None ELSE v

\* `x or default` for a value that is None or a string
Or(v, default) == IF v.kind = "None" THEN default ELSE v

\* the classes that declare the hidden input unique_id and pass it on: those
\* of image.py, video.py and audio.py; text.py and livepeer_jobgetter.py do not
PassesUniqueId(cls) ==
    cls \in {"LivepeerImageJobGetter", "LivepeerVideoJobGetter", "LivepeerAudioJobGetter"}

\* _cleanup_supplanted_job without the test of the stored status
cleanup_supplanted_job_any_status(s, last_id, current_job_id) ==
    IF current_job_id # last_id /\ last_id # NoId
    THEN IF InStore(s, last_id) THEN Pop(s, last_id) ELSE s
    ELSE s

\* _cleanup_supplanted_job: the stored record of the id this instance last
\* delivered is evicted when another id arrives and it is still delivered
cleanup_supplanted_job(s, last_id, current_job_id) ==
    IF current_job_id # last_id /\ last_id # NoId
    THEN IF InStore(s, last_id) /\ s[last_id].status = "delivered"
         THEN Pop(s, last_id) ELSE s
    ELSE s

\* _get_or_process_job_result lines 219-231: the node state map is updated
\* and the supplanted job is cleaned up
GetterCall(g, job_id) ==
    /\ getter[g].pc = "idle"
    /\ node_state' = IF PassesUniqueId(GetterClass(g))
                     THEN [node_state EXCEPT ![g] = job_id] ELSE node_state
    /\ store' = cleanup_supplanted_job(store, getter[g].last_delivered_id, job_id)
    /\ getter' = [getter EXCEPT
                    ![g].pc = "read", ![g].job_id = job_id,
                    ![g].last_delivered_id =
                        IF job_id # @ /\ @ # NoId THEN NoId ELSE @]
    /\ event' = IF event.kind = "getter" /\ event.who = g /\ event.job_id = job_id
                THEN [event EXCEPT !.kind = "previous"] ELSE NoEvent
    /\ UNCHANGED <<nextId, thread, projCount, writes>>
    /\ UNCHANGED <<interrupted, throw_errors, batchVars, retryVars, probeVars, svcVars>>
    /\ Locking(Actor("getter", g, 0),
               job_id # getter[g].last_delivered_id /\ getter[g].last_delivered_id # NoId)
    /\ UNCHANGED firstDelivery

\* _get_job_info with a lookup that takes an unknown id for a pending job
get_job_info_default_pending(s, job_id) ==
    IF job_id = NoId \/ ~InStore(s, job_id)
    THEN [job_info |-> NoInfo, status |-> "pending", error |-> None]
    ELSE [job_info |-> s[job_id], status |-> s[job_id].status, error |-> Get(s[job_id].error)]

\* _get_job_info: (copy of the record, status, error)
get_job_info(s, job_id) ==
    IF job_id = NoId
    THEN [job_info |-> NoInfo, status |-> "not_found", error |-> Msg("No Job ID provided.")]
    ELSE IF ~InStore(s, job_id)
    THEN [job_info |-> NoInfo, status |-> "not_found", error |-> Msg("Job ID not found in store.")]
    ELSE [job_info |-> s[job_id], status |-> s[job_id].status, error |-> Get(s[job_id].error)]

\* _handle_terminal_state: key is job_info.get('job_id', 'N/A'); the result
\* is the store after the cleanup and the returned status and message
handle_terminal_state(s, key, status, error) ==
    CASE status = "failed" ->
            [store |-> Pop(s, key), error |-> Or(error, Msg("Unknown failure reason."))]
      [] status = "processing_error" ->
            [store |-> Pop(s, key), error |-> Or(error, Msg("Unknown processing error."))]
      [] status = "not_found" ->
            [store |-> s, error |-> Or(error, Msg("Job ID not found."))]
      [] status = "type_mismatch" ->
            [store |-> Pop(s, key), error |-> Or(error, Msg("Job type does not match"))]
      [] OTHER ->
            [store |-> s, error |-> Msg("Unexpected terminal state")]

\* all(key in job_info for key in PROCESSED_RESULT_KEYS)
AllKeysPresent(job_info, cls) ==
    \A i \in 1..Len(PROCESSED_RESULT_KEYS(cls)) :
        job_info.processed[PROCESSED_RESULT_KEYS(cls)[i]].kind # "absent"

\* lines 299-305: the cached outputs of a delivered record
stored_results(job_info, cls) ==
    [i \in 1..Len(PROCESSED_RESULT_KEYS(cls)) |->
        LET v == job_info.processed[PROCESSED_RESULT_KEYS(cls)[i]]
        IN  IF v.kind = "absent" THEN DEFAULT_OUTPUTS(cls)[i] ELSE v]

\* triage with a pending record taken for one that needs processing
triage_pending_processed(info, cls) ==
    LET job_info == info.job_info
        status == info.status
    IN  IF status \in {"not_found", "failed", "processing_error"}
        THEN [act |-> "terminal", status |-> status, error |-> info.error,
              key |-> IF status = "not_found" THEN NoId ELSE NA]
        ELSE IF job_info.type \notin EXPECTED_JOB_TYPES(cls)
        THEN [act |-> "terminal", status |-> "type_mismatch",
              error |-> Msg("Expected one of EXPECTED_JOB_TYPES"), key |-> NA]
        ELSE IF status \in {"pending", "completed_pending_delivery"}
        THEN [act |-> "process", status |-> status, error |-> None, key |-> NA]
        ELSE IF status = "delivered"
        THEN IF ~AllKeysPresent(job_info, cls)
             THEN [act |-> "process", status |-> status, error |-> None, key |-> NA]
             ELSE [act |-> "cached", status |-> status,
                   error |-> Msg("Results previously delivered."), key |-> NA]
        ELSE [act |-> "return", status |-> status, error |-> Msg("Unexpected status"), key |-> NA]

\* triage that looks at the type only when the record is not delivered
triage_delivered_untyped(info, cls) ==
    LET job_info == info.job_info
        status == info.status
    IN  IF status \in {"not_found", "failed", "processing_error"}
        THEN [act |-> "terminal", status |-> status, error |-> info.error,
              key |-> IF status = "not_found" THEN NoId ELSE NA]
        ELSE IF status # "delivered" /\ job_info.type \notin EXPECTED_JOB_TYPES(cls)
        THEN [act |-> "terminal", status |-> "type_mismatch",
              error |-> Msg("Expected one of EXPECTED_JOB_TYPES"), key |-> NA]
        ELSE IF status = "pending"
        THEN [act |-> "return", status |-> status, error |-> Msg("Job is pending."), key |-> NA]
        ELSE IF status = "completed_pending_delivery"
        THEN [act |-> "process", status |-> status, error |-> None, key |-> NA]
        ELSE IF status = "delivered"
        THEN IF ~AllKeysPresent(job_info, cls)
             THEN [act |-> "process", status |-> status, error |-> None, key |-> NA]
             ELSE [act |-> "cached", status |-> status,
                   error |-> Msg("Results previously delivered."), key |-> NA]
        ELSE [act |-> "return", status |-> status, error |-> Msg("Unexpected status"), key |-> NA]

\* triage that projects a delivered record again whether or not its cache
\* fields are present
triage_reprocess_delivered(info, cls) ==
    LET job_info == info.job_info
        status == info.status
    IN  IF status \in {"not_found", "failed", "processing_error"}
        THEN [act |-> "terminal", status |-> status, error |-> info.error,
              key |-> IF status = "not_found" THEN NoId ELSE NA]
        ELSE IF job_info.type \notin EXPECTED_JOB_TYPES(cls)
        THEN [act |-> "terminal", status |-> "type_mismatch",
              error |-> Msg("Expected one of EXPECTED_JOB_TYPES"), key |-> NA]
        ELSE IF status = "pending"
        THEN [act |-> "return", status |-> status, error |-> Msg("Job is pending."), key |-> NA]
        ELSE IF status \in {"completed_pending_delivery", "delivered"}
        THEN [act |-> "process", status |-> status, error |-> None, key |-> NA]
        ELSE [act |-> "return", status |-> status, error |-> Msg("Unexpected status"), key |-> NA]

\* lines 233-265 and 296-307: what a getter call does with the record it
\* read: "process" when the raw result must be projected, else the returned
\* tuple (outputs, status, error)
triage(info, cls) ==
    LET job_info == info.job_info
        status == info.status
    IN  IF status \in {"not_found", "failed", "processing_error"}
        THEN [act |-> "terminal", status |-> status, error |-> info.error,
              key |-> IF status = "not_found" THEN NoId ELSE NA]
        ELSE IF job_info.type \notin EXPECTED_JOB_TYPES(cls)
        THEN [act |-> "terminal", status |-> "type_mismatch",
              error |-> Msg("Expected one of EXPECTED_JOB_TYPES"), key |-> NA]
        ELSE IF status = "pending"
        THEN [act |-> "return", status |-> status, error |-> Msg("Job is pending."), key |-> NA]
        ELSE IF status = "completed_pending_delivery"
        THEN [act |-> "process", status |-> status, error |-> None, key |-> NA]
        ELSE IF status = "delivered"
        THEN IF ~AllKeysPresent(job_info, cls)
             THEN [act |-> "process", status |-> status, error |-> None, key |-> NA]
             ELSE [act |-> "cached", status |-> status,
                   error |-> Msg("Results previously delivered."), key |-> NA]
        ELSE [act |-> "return", status |-> status, error |-> Msg("Unexpected status"), key |-> NA]

Returned(g, job_id, status, outputs, error, info, proj) ==
    [NoEvent EXCEPT !.kind = "getter", !.who = g, !.job_id = job_id, !.status = status,
                    !.outputs = outputs, !.error = error, !.read = info, !.proj = proj,
                    !.before = IF event.kind = "previous" /\ event.who = g
                               THEN [status |-> event.status, outputs |-> event.outputs,
                                     error |-> event.error, read |-> event.read]
                               ELSE NoBefore]

\* the getter instance after its entry point returned
Idle(gs, last_delivered_id) ==
    [IdleGetter EXCEPT !.cls = gs.cls, !.last_delivered_id = last_delivered_id]

\* _get_or_process_job_result lines 233-265, 296-307: the record is read
\* under the lock and the call returns unless the result must be projected
GetterRead(g) ==
    /\ getter[g].pc = "read"
    /\ LET cls == GetterClass(g)
           job_id == getter[g].job_id
           info == get_job_info(store, job_id)
           t == triage(info, cls)
       IN  CASE t.act = "process" ->
                  /\ getter' = [getter EXCEPT ![g].pc = "process", ![g].job_info = info.job_info]
                  /\ event' = IF event.kind = "previous" /\ event.who = g
                              THEN event ELSE NoEvent
                  /\ UNCHANGED store
             [] t.act = "cached" ->
                  /\ getter' = [getter EXCEPT ![g] = Idle(@, job_id)]
                  /\ event' = Returned(g, job_id, t.status, stored_results(info.job_info, cls),
                                         t.error, info.job_info, "")
                  /\ UNCHANGED store
             [] t.act = "terminal" ->
                  LET h == handle_terminal_state(store, t.key, t.status, t.error)
                  IN  /\ store' = h.store
                      /\ getter' = [getter EXCEPT ![g] = Idle(@, @.last_delivered_id)]
                      /\ event' = Returned(g, job_id, t.status, DEFAULT_OUTPUTS(cls),
                                             h.error, info.job_info, "")
             [] OTHER ->
                  /\ getter' = [getter EXCEPT ![g] = Idle(@, @.last_delivered_id)]
                  /\ event' = Returned(g, job_id, t.status, DEFAULT_OUTPUTS(cls),
                                         t.error, info.job_info, "")
                  /\ UNCHANGED store
    /\ UNCHANGED <<nextId, thread, node_state, projCount, writes, firstDelivery>>
    /\ UNCHANGED <<interrupted, throw_errors, batchVars, retryVars, probeVars, svcVars>>
    /\ Locking(Actor("getter", g, 0), getter[g].job_id # NoId)

\* _update_job_store_processed
update_job_store_processed(s, job_id, processed_data, error, status) ==
    IF InStore(s, job_id)
    THEN [s EXCEPT ![job_id].status = status,
                   ![job_id].processed = [k \in AllKeys |->
                        IF processed_data[k].kind # "absent" THEN processed_data[k] ELSE @[k]],
                   ![job_id].error = IF error.kind # "absent" THEN error ELSE @]
    ELSE s

\* the outputs of a successful projection.  flag is, for an image, whether
\* the decoded tensor is taller than BLANK_HEIGHT and, for video and audio,
\* whether the media was downloaded and loaded (download_video,
\* download_audio); a text is always ready
processed_outputs(cls, raw, flag) ==
    CASE cls \in ImageGetters -> <<Decoded(cls, raw), flag>>
      [] cls \in TextGetters -> <<Decoded(cls, raw), PyTrue>>
      [] cls \in VideoGetters ->
            IF flag = PyTrue
            THEN <<Decoded(cls, raw), V("str", "video path", raw.inv),
                   V("Tensor", "frames", raw.inv), V("Audio", "track", raw.inv), PyTrue>>
            ELSE <<Decoded(cls, raw), None, None, None, PyFalse>>
      [] cls \in AudioGetters ->
            IF flag = PyTrue THEN <<Decoded(cls, raw), PyTrue>> ELSE <<None, PyFalse>>

\* the data to store of a successful projection: the outputs under the
\* keys of the class, in order; jobgetter.LivepeerAudioJobGetter stores the
\* url, the path and the waveform
processed_data_to_store(cls, raw, outputs) ==
    IF cls = "jobgetter.LivepeerAudioJobGetter"
    THEN [k \in AllKeys |->
            CASE k = "processed_url" -> V("str", "audio url", raw.inv)
              [] k = "processed_path" ->
                    IF outputs[2] = PyTrue THEN V("str", "audio path", raw.inv) ELSE None
              [] k = "processed_audio" -> outputs[1]
              [] OTHER -> Absent]
    ELSE [k \in AllKeys |->
            IF \E i \in 1..Len(PROCESSED_RESULT_KEYS(cls)) : PROCESSED_RESULT_KEYS(cls)[i] = k
            THEN outputs[CHOOSE i \in 1..Len(PROCESSED_RESULT_KEYS(cls)) :
                             PROCESSED_RESULT_KEYS(cls)[i] = k]
            ELSE Absent]

\* lines 287-293 with an exception handler that lets the exception leave
process_reraise(cls, e) ==
    [how |-> "raise", status |-> "", outputs |-> <<>>, error |-> None]

\* lines 287-293: an exception e of the projector is caught and reported as
\* processing_error with the placeholder outputs
process_except(cls, e) ==
    [how |-> "", status |-> "processing_error", outputs |-> DEFAULT_OUTPUTS(cls),
     error |-> [Msg("Exception processing result for job") EXCEPT
                    !.lastText = Str(e).text, !.lastInv = Str(e).inv]]

\* _get_or_process_job_result lines 267-294: the raw result of the copy is
\* projected outside the lock, the store is updated under the lock and the
\* call returns
GetterProcess(g) ==
    /\ getter[g].pc = "process"
    /\ LET cls == GetterClass(g)
           job_id == getter[g].job_id
           job_info == getter[g].job_info
           raw_result == Get(job_info.result)
       IN \E proj \in ProjOutcomes(raw_result), ready \in {PyTrue, PyFalse},
             cause \in {None, CaughtError, ProjError} :
            /\ IF proj = "ok" THEN ready \in Flags(cls, raw_result) ELSE ready = PyFalse
            /\ cause \in Causes(proj)
            /\ projCount' = [projCount EXCEPT ![job_id] = @ + 1]
            /\ CASE proj = "ok" ->
                      LET outputs == processed_outputs(cls, raw_result, ready)
                      IN  /\ store' = update_job_store_processed(store, job_id,
                                         processed_data_to_store(cls, raw_result, outputs), Absent,
                                         "delivered")
                          /\ getter' = [getter EXCEPT ![g] = Idle(@, job_id)]
                          /\ event' = [Returned(g, job_id, "delivered", outputs, None,
                                                  job_info, proj) EXCEPT !.cause = cause]
                 [] proj = "none" ->
                      /\ store' = update_job_store_processed(store, job_id, NoProcessed,
                                     Msg("Processing function failed for job"),
                                     "processing_error")
                      /\ getter' = [getter EXCEPT ![g] = Idle(@, @.last_delivered_id)]
                      /\ event' = [Returned(g, job_id, "processing_error",
                                              DEFAULT_OUTPUTS(cls),
                                              Msg("Processing function failed for job"),
                                              job_info, proj) EXCEPT !.cause = cause]
                 [] proj = "raise" ->
                      LET x == process_except(cls, cause)
                      IN  /\ store' = IF x.how = "raise" THEN store
                                       ELSE update_job_store_processed(store, job_id,
                                                NoProcessed, x.error, x.status)
                          /\ getter' = [getter EXCEPT ![g] = Idle(@, @.last_delivered_id)]
                          /\ event' = [Returned(g, job_id, x.status, x.outputs, x.error,
                                                  job_info, proj) EXCEPT !.how = x.how,
                                                                         !.cause = cause]
            /\ writes' = Logged(writes, job_id, "getter", store, store')
            /\ firstDelivery' =
                  IF event'.status = "delivered" /\ firstDelivery[job_id] = <<>>
                  THEN [firstDelivery EXCEPT ![job_id] = event'.outputs]
                  ELSE firstDelivery
    /\ UNCHANGED <<nextId, thread, node_state>>
    /\ UNCHANGED <<interrupted, throw_errors, batchVars, retryVars, probeVars, svcVars>>
    /\ Locking(Actor("getter", g, 0), event'.how # "raise")

Next ==
    \/ \E sub \in Submitters : SubmitDisabled(sub)
    \/ \E sub \in Submitters, n \in 1..MaxRetries : trigger_async_job(sub, n)
    \/ \E sub \in Submitters, n \in 1..MaxRetries : SubmitSync(sub, n)
    \/ \E j \in JobIds : ThreadStart(j)
    \/ \E j \in JobIds : ThreadExecute(j)
    \/ \E j \in JobIds : ThreadStore(j)
    \/ \E g \in Getters, job_id \in JobIds \cup {NoId} : GetterCall(g, job_id)
    \/ \E g \in Getters : GetterRead(g)
    \/ \E g \in Getters : GetterProcess(g)
    \/ Interrupt

Spec == Init /\ [][Next]_vars

\* ------------------------------------------------------------------------
\* SpecGetters: the getter classes of every modality and the probe IS_CHANGED
\* ------------------------------------------------------------------------

\* time.time(): a reading of the clock, kept modulo 2.  The clock advances
\* between two calls, so a reading differs from the reading before it.
time(prev) == V("float", "", IF prev.kind = "float" THEN 1 - prev.inv ELSE 0)

\* IS_CHANGED with completed_pending_delivery in its list of terminal states
is_changed_completed_terminal(cls, tracked, s, prev) ==
    IF ~PassesUniqueId(cls) THEN time(prev)
    ELSE IF tracked = NoId THEN time(prev)
    ELSE LET current_status == IF InStore(s, tracked) THEN s[tracked].status ELSE "not_found"
         IN  IF current_status \in {"delivered", "failed", "processing_error",
                                    "completed_pending_delivery"}
             THEN IF current_status = "delivered" /\ ~AllKeysPresent(s[tracked], cls)
                  THEN time(prev)
                  ELSE V("str", "job id", tracked)
             ELSE time(prev)

\* IS_CHANGED lines 90-139: the value returned for a node of class cls whose
\* entry of _node_instance_state holds the job id tracked (NoId: no entry or
\* None), read against the store s
is_changed(cls, tracked, s, prev) ==
    IF ~PassesUniqueId(cls) THEN time(prev)
    ELSE IF tracked = NoId THEN time(prev)
    ELSE LET current_status == IF InStore(s, tracked) THEN s[tracked].status ELSE "not_found"
         IN  IF current_status \in {"delivered", "failed", "processing_error", "type_mismatch"}
             THEN IF current_status = "delivered" /\ ~AllKeysPresent(s[tracked], cls)
                  THEN time(prev)
                  ELSE V("str", "job id", tracked)
             ELSE time(prev)

\* IS_CHANGED with a probe that forgets the tracked id of a node whose record
\* is no longer in the store
IS_CHANGED_forgetting(g) ==
    /\ getter[g].pc = "idle"
    /\ event' =
          LET follows == event.kind \in {"getter", "probe"} /\ event.who = g
          IN  [NoEvent EXCEPT !.kind = "probe", !.who = g,
                              !.how = IF event.kind = "probe" /\ event.who = g
                                      THEN "again" ELSE "first",
                              !.job_id = IF follows THEN event.job_id ELSE NoId,
                              !.status = IF follows THEN event.status ELSE "",
                              !.value = is_changed(GetterClass(g), node_state[g], store,
                                                   event.value)]
    /\ node_state' = IF InStore(store, node_state[g]) THEN node_state
                     ELSE [node_state EXCEPT ![g] = NoId]
    /\ UNCHANGED <<store, nextId, thread, getter, projCount, writes>>
    /\ UNCHANGED firstDelivery
    /\ UNCHANGED <<interrupted, throw_errors, batchVars, retryVars, probeVars, svcVars>>
    /\ Locking(Actor("probe", g, 0), node_state[g] # NoId)

\* the host probes node g before it decides to run it again
IS_CHANGED(g) ==
    /\ getter[g].pc = "idle"
    /\ event' =
          LET follows == event.kind \in {"getter", "probe"} /\ event.who = g
          IN  [NoEvent EXCEPT !.kind = "probe", !.who = g,
                              !.how = IF event.kind = "probe" /\ event.who = g
                                      THEN "again" ELSE "first",
                              !.job_id = IF follows THEN event.job_id ELSE NoId,
                              !.status = IF follows THEN event.status ELSE "",
                              !.value = is_changed(GetterClass(g), node_state[g], store,
                                                   event.value)]
    /\ UNCHANGED <<store, nextId, thread, getter, node_state, projCount, writes>>
    /\ UNCHANGED firstDelivery
    /\ UNCHANGED <<interrupted, throw_errors, batchVars, retryVars, probeVars, svcVars>>
    /\ Locking(Actor("probe", g, 0), node_state[g] # NoId)

\* one submit node for each job type family
GetterSubmitters == {"LivepeerT2I", "LivepeerI2T"} \cup MediaSubmitters

\* the classes of the two getter nodes of a workflow: two nodes of one
\* class, or an image getter and a text getter
GetterNodes ==
    {[g \in Getters |-> c] : c \in GetterClasses}
        \cup {[g \in Getters |-> IF g = "g1" THEN "LivepeerImageJobGetter"
                                               ELSE "LivepeerTextJobGetter"]}

\* the default configuration (throw_errors: True)
InitGetters ==
    /\ call = NoCall
    /\ intrWhen = NotInterrupted
    /\ interrupted = FALSE
    /\ throw_errors = TRUE
    /\ \E nodes \in GetterNodes :
          getter = [g \in Getters |-> [IdleGetter EXCEPT !.cls = nodes[g]]]
    /\ InitJobs

NextGetters ==
    \/ \E sub \in GetterSubmitters : trigger_async_job(sub, 1)
    \/ \E sub \in GetterSubmitters : SubmitSync(sub, 1)
    \/ \E j \in JobIds : ThreadStart(j)
    \/ \E j \in JobIds : ThreadExecute(j)
    \/ \E j \in JobIds : ThreadStore(j)
    \/ \E g \in Getters, job_id \in JobIds \cup {NoId} : GetterCall(g, job_id)
    \/ \E g \in Getters : GetterRead(g)
    \/ \E g \in Getters : GetterProcess(g)
    \/ \E g \in Getters : IS_CHANGED(g)

SpecGetters == InitGetters /\ [][NextGetters]_vars

\* ------------------------------------------------------------------------
\* Properties
\* ------------------------------------------------------------------------
StatusChanges ==
    {<<"pending", "completed_pending_delivery">>, <<"pending", "failed">>,
     <<"completed_pending_delivery", "delivered">>,
     <<"completed_pending_delivery", "processing_error">>}

\* C1: every change of the stored status of a record is pending ->
\* completed_pending_delivery, pending -> failed, completed_pending_delivery
\* -> delivered or completed_pending_delivery -> processing_error
C1_StatusChangesAllowed ==
    [][\A j \in JobIds :
          (InStore(store, j) /\ InStore(store', j) /\ store[j].status # store'[j].status)
              => <<store[j].status, store'[j].status>> \in StatusChanges]_vars

\* C2: for every job id the projector _process_raw_result is invoked at most
\* once, over all getter invocations on that id
C2_ProjectedAtMostOnce == \A j \in JobIds : projCount[j] <= 1

\* the status writes to the record of j that moved the status away from st
OutOf(j, st) ==
    {i \in 1..Len(writes[j]) : writes[j][i].from = st /\ writes[j][i].to # st}

C4_ThreadOutcomeStored ==
    (event.kind = "thread" /\ InStore(store, event.job_id)) =>
        LET r == store[event.job_id]
        IN  IF event.accepted
            THEN /\ r.status = "completed_pending_delivery"
                 /\ r.result = event.ret
                 /\ r.result.kind = "Response"
            ELSE /\ r.status = "failed"
                 /\ r.error.kind = "str"
                 /\ r.error.text # ""

\* C5: a call with max_retries = N that is not cancelled and whose operation
\* raises on every invocation invokes it exactly N times and ends raising the
\* exhausted-retry error, whose message contains the message of the N-th
\* invocation's error
C5_ExhaustedAfterNInvocations ==
    (/\ Terminal(call)
     /\ ~interrupted
     /\ call.timeouts = 0
     /\ call.opRaised = call.opCalls) =>
        /\ call.opCalls = call.max_retries
        /\ call.retKind = "raise"
        /\ Exhausted(call.ret)
        /\ call.ret.n = call.max_retries
        /\ Contains(Str(call.ret), OpError(call.max_retries))

CancellationError(c) ==
    c.retKind = "raise" /\ c.ret.kind = "InterruptProcessingException"

\* C6: when the flag is raised while the call is in the poll loop of its
\* first attempt, the operation is never started a second time and the call
\* can only end by raising the cancellation error
C6_CancelInFirstPoll ==
    (intrWhen.pc = "poll" /\ intrWhen.starts = 1) =>
        /\ call.starts = 1
        /\ call.opCalls <= 1
        /\ call.pc \in {"poll", "after_poll", "raised"}
        /\ Terminal(call) => CancellationError(call)

\* C6 witness: the flag was raised in the first poll loop with budget left,
\* the operation had been invoked, and the call has raised
C6_Witness ==
    /\ intrWhen.pc = "poll"
    /\ intrWhen.starts = 1
    /\ call.max_retries >= 2
    /\ call.opCalls = 1
    /\ call.pc = "raised"

\* C7: once the flag has been observed (by the caller at attempt start, in
\* the poll loop, after it, at the final check or in the retry delay, or by
\* the worker before it invokes the operation) the attempts counter does not
\* grow, no further attempt starts and the call can only end by raising the
\* cancellation error
C7_CancellationIsNoFailedAttempt ==
    (call.seen # "") =>
        /\ call.attempts = call.seenAttempts
        /\ call.starts = call.seenStarts
        /\ call.pc # "returned"
        /\ Terminal(call) => CancellationError(call)

\* C7 witness: the worker's own check observed the flag with budget left and
\* the call has raised
C7_Witness ==
    /\ call.seen = "worker"
    /\ call.attempts + 1 < call.max_retries
    /\ call.pc = "raised"

\* C8: when a synchronous submit ends raising the exhausted-retry error, the
\* store holds a failed record with the error description
C8_SyncFailureRecorded ==
    (event.kind = "submit" /\ event.sync /\ event.how = "raise" /\ Exhausted(event.value)) =>
        \E j \in JobIds :
            /\ store[j].status = "failed"
            /\ store[j].error = Str(event.value)

\* C9: a value other than None returned by a synchronous submit is the id of
\* a stored record with status completed_pending_delivery, the submitter's
\* job type and the operation's response as result
C9_SyncReturnIsStoredId ==
    (event.kind = "submit" /\ event.sync /\ event.how \notin {"None", "raise"}) =>
        /\ event.how = "id"
        /\ InStore(store, event.job_id)
        /\ store[event.job_id].status = "completed_pending_delivery"
        /\ store[event.job_id].type = JOB_TYPE(event.who)
        /\ store[event.job_id].result.kind = "Response"

\* a getter call that returned for an asynchronous job of a type it expects
AsyncPoll ==
    /\ event.kind = "getter"
    /\ event.job_id \in JobIds
    /\ thread[event.job_id].pc # "none"
    /\ InStore(store, event.job_id)
    /\ event.read.type \in EXPECTED_JOB_TYPES(GetterClass(event.who))

\* the call read the record before the thread stored its outcome
PolledBeforeStore == AsyncPoll /\ thread[event.job_id].pc # "done"

\* the call is the first to read the record after the thread stored an
\* accepted response: no getter has settled the record it read
PolledFirstAfterSuccess ==
    /\ AsyncPoll
    /\ thread[event.job_id].pc = "done"
    /\ thread[event.job_id].accepted
    /\ event.read.result.kind = "Response"
    /\ event.read.status \notin {"delivered", "processing_error"}

ReturnedPending ==
    /\ event.status = "pending"
    /\ event.outputs = DEFAULT_OUTPUTS(GetterClass(event.who))
    /\ store[event.job_id] = event.read

ReturnedDelivered ==
    /\ event.status = "delivered"
    /\ Len(event.outputs) = 2
    /\ event.outputs[1] = Decoded(GetterClass(event.who), event.read.result)
    /\ event.outputs[2] \in {PyTrue, PyFalse}

ReturnedProcessingError ==
    /\ event.status = "processing_error"
    /\ event.outputs = DEFAULT_OUTPUTS(GetterClass(event.who))

\* C10 as stated: a getter call before the thread stored its outcome returns
\* pending with placeholders and leaves the record unchanged; the first call
\* after the thread stored a successful response returns delivered with the
\* projected outputs
C10_PendingThenDelivered ==
    /\ PolledBeforeStore => ReturnedPending
    /\ PolledFirstAfterSuccess => ReturnedDelivered

\* C10 amended: a getter call before the thread stored its outcome returns
\* pending with placeholders and leaves the record unchanged; the first call
\* after the thread stored a successful response returns delivered with the
\* projected outputs when the projector succeeds, and processing_error with
\* placeholders when the projector returns no result or raises
C10_PendingThenDeliveredOrProcessingError ==
    /\ PolledBeforeStore => ReturnedPending
    /\ PolledFirstAfterSuccess =>
          \/ event.proj = "ok" /\ ReturnedDelivered
          \/ event.proj \in {"none", "raise"} /\ ReturnedProcessingError

\* C10 witness: the first call after the thread stored a response returned
\* delivered with the projection of that response
C10_Witness ==
    /\ PolledFirstAfterSuccess
    /\ event.proj = "ok"
    /\ ReturnedDelivered

\* two consecutive probes of node g with nothing in between: the last step
\* was a probe of g and this step is one
ProbedAgain(g) ==
    /\ event.kind = "probe"
    /\ event.who = g
    /\ event'.kind = "probe"
    /\ event'.who = g

\* the record is failed, processing_error, or delivered with every cache
\* field of class cls
Settled(rec, cls) ==
    \/ rec.status \in {"failed", "processing_error"}
    \/ rec.status = "delivered" /\ AllKeysPresent(rec, cls)

\* C11: for every getter class, when the job a node's getter call was last
\* given is stored as failed, processing_error, or delivered with every cache
\* field of the class, two consecutive probes of the node return equal values
C11_SettledProbeStable ==
    [][\A g \in Getters :
          (/\ ProbedAgain(g)
           /\ InStore(store, event.job_id)
           /\ Settled(store[event.job_id], GetterClass(g)))
              => event'.value = event.value]_vars

\* C12: when the node has no tracked job id, or the stored status of its
\* tracked job is pending or completed_pending_delivery, a probe returns a
\* value different from the one the probe before it returned
C12_UnsettledProbeChanges ==
    [][\A g \in Getters :
          (/\ ProbedAgain(g)
           /\ \/ node_state[g] = NoId
              \/ /\ InStore(store, node_state[g])
                 /\ store[node_state[g]].status \in {"pending", "completed_pending_delivery"})
              => event'.value # event.value]_vars

\* C12 witness: a node that tracks a job whose record is still to be
\* delivered has been probed twice in a row and the second probe returned
\* the later clock reading
C12_Witness ==
    /\ event.kind = "probe"
    /\ event.how = "again"
    /\ event.value = V("float", "", 1)
    /\ node_state[event.who] \in JobIds
    /\ InStore(store, node_state[event.who])
    /\ store[node_state[event.who]].status = "completed_pending_delivery"

\* C13: after a getter call on a job id returned not_found or type_mismatch,
\* and with nothing else happening, two consecutive probes of the node return
\* equal values
C13_NotFoundAndMismatchAreTerminal ==
    [][\A g \in Getters :
          (/\ ProbedAgain(g)
           /\ event.job_id \in JobIds
           /\ event.status \in {"not_found", "type_mismatch"})
              => event'.value = event.value]_vars

\* a getter call has read a stored record whose type is not among the
\* expected types of its class
ReadOtherType ==
    /\ event.kind = "getter"
    /\ event.read.status # "none"
    /\ event.read.type \notin EXPECTED_JOB_TYPES(GetterClass(event.who))

C15_TerminalRecordEvicted ==
    (/\ event.kind = "getter"
     /\ event.status \in {"failed", "processing_error", "type_mismatch"}
     /\ event.read.status # "none") =>
        ~InStore(store, event.job_id)

\* a job id for which no record was ever created: None or empty, or an id
\* that no submit has generated
NeverCreated(job_id) == job_id = NoId \/ job_id >= nextId

\* C16: a getter call on an id for which no record was ever created finds
\* nothing in the store, returns not_found with the placeholder outputs and a
\* message, and creates no record
C16_UnknownIdNotFound ==
    (event.kind = "getter" /\ NeverCreated(event.job_id)) =>
        /\ event.read = NoInfo
        /\ event.status = "not_found"
        /\ event.outputs = DEFAULT_OUTPUTS(GetterClass(event.who))
        /\ event.error.kind = "str"
        /\ event.error.text # ""
        /\ \A j \in JobIds : NeverCreated(j) => ~InStore(store, j)

\* C16 witness: a getter call on an id that no submit has generated yet
\* returned not_found
C16_Witness ==
    /\ event.kind = "getter"
    /\ event.job_id \in JobIds
    /\ NeverCreated(event.job_id)
    /\ event.status = "not_found"

\* the record a call read is delivered with every cache field of the class
CachedRead(rec, cls) == rec.status = "delivered" /\ AllKeysPresent(rec, cls)

\* C17: when a getter is called twice in a row on an id and both calls read
\* a record that is delivered with all cache fields, the two calls return
\* equal tuples, read the same record and leave it as it was
C17_CachedReadIdempotent ==
    (/\ event.kind = "getter"
     /\ CachedRead(event.before.read, GetterClass(event.who))
     /\ CachedRead(event.read, GetterClass(event.who))) =>
        /\ event.outputs = event.before.outputs
        /\ event.status = event.before.status
        /\ event.error = event.before.error
        /\ event.read = event.before.read
        /\ store[event.job_id] = event.read

\* C17 witness: the second of two consecutive cached reads has returned
C17_Witness ==
    /\ event.kind = "getter"
    /\ CachedRead(event.before.read, GetterClass(event.who))
    /\ CachedRead(event.read, GetterClass(event.who))
    /\ event.status = "delivered"

\* C18: a getter call that returns delivered for a job returns the leading
\* outputs that the first delivering call for that job returned, position by
\* position
C18_CachedReadReproducesDelivery ==
    (/\ event.kind = "getter"
     /\ event.status = "delivered"
     /\ event.job_id \in JobIds
     /\ firstDelivery[event.job_id] # <<>>) =>
        event.outputs = firstDelivery[event.job_id]

\* C19: the tuple a getter entry point returns has as many elements as
\* RETURN_TYPES of its class, and its last two are the status string and the
\* error message or None
C19_ReturnArity ==
    (event.kind = "getter") =>
        LET tuple == event.outputs \o <<Msg(event.status), event.error>>
            n == Len(RETURN_TYPES(GetterClass(event.who)))
        IN  /\ Len(tuple) = n
            /\ tuple[n - 1].kind = "str"
            /\ tuple[n - 1].text # ""
            /\ tuple[n].kind \in {"str", "None"}

\* C20: a getter entry point never raises: every call returns a tuple that
\* carries a status string, also when the projector raises or returns
\* (None, None)
C20_GetterNeverRaises ==
    (event.kind = "getter") =>
        /\ event.how # "raise"
        /\ event.status \in {"not_found", "type_mismatch", "failed", "pending",
                              "delivered", "processing_error"}

\* C20 witness: the projector raised and the call returned processing_error
C20_Witness ==
    /\ event.kind = "getter"
    /\ event.proj = "raise"
    /\ event.how # "raise"
    /\ event.status = "processing_error"

\* a getter call has projected the result of a record it read as
\* completed_pending_delivery and the projector failed: it returned
\* (None, None) or raised
ProjectorFailed ==
    /\ event.kind = "getter"
    /\ event.read.status = "completed_pending_delivery"
    /\ event.proj \in {"none", "raise"}

\* C21: when the projector fails on a completed_pending_delivery job, the
\* getter call returns processing_error with a message that contains the
\* reason of the failure, and the stored status is then processing_error
C21_ProjectorFailureReported ==
    ProjectorFailed =>
        /\ event.status = "processing_error"
        /\ event.error.kind = "str"
        /\ event.cause # None => Contains(event.error, event.cause)
        /\ InStore(store, event.job_id)
        /\ store[event.job_id].status = "processing_error"

\* getter g enters its entry point in this step: the step of
\* _cleanup_supplanted_job
Enters(g) == getter[g].pc = "idle" /\ getter'[g].pc = "read"

\* C22: the supplanted-job cleanup of a getter call removes a record only if
\* its id is the one the instance last delivered, differs from the id of the
\* call and its stored status is delivered; every other record stays as it is
C22_CleanupOnlySupplanted ==
    [][\A g \in Getters : Enters(g) =>
          \A j \in JobIds :
             /\ (InStore(store, j) /\ ~InStore(store', j)) =>
                    /\ j = getter[g].last_delivered_id
                    /\ j # getter'[g].job_id
                    /\ store[j].status = "delivered"
             /\ InStore(store', j) => store'[j] = store[j]]_vars

\* C22 witness: a getter that had delivered job 1 has been called with
\* another id and the cleanup has removed the record of job 1
C22_Witness ==
    \E g \in Getters :
        /\ getter[g].pc = "read"
        /\ getter[g].job_id # 1
        /\ getter[g].last_delivered_id = NoId
        /\ firstDelivery[1] # <<>>
        /\ nextId > 1
        /\ ~InStore(store, 1)
        /\ event = NoEvent

\* the poll loop of the current attempt has ended because the worker
\* finished: neither on timeout nor on a cancellation seen in the loop
PollExitedOnDone(c) ==
    /\ c.pc = "after_poll"
    /\ c.done
    /\ ~c.timed_out
    /\ ~c.cancelled_during_poll

\* C24: when the flag is raised after the poll loop ended because the worker
\* finished, the caller's next step raises the cancellation error and the
\* call does not accept the worker's result, whatever the worker wrote
C24_CancelAfterPollWins ==
    [][(/\ PollExitedOnDone(call)
        /\ interrupted
        /\ call'.pc # call.pc) =>
            /\ CancellationError(call')
            /\ ~call'.accepted]_vars

\* C24 witness: the worker finished with a response, the flag was first
\* observed by the check after the poll loop, and the call has raised
C24_Witness ==
    /\ call.pc = "raised"
    /\ call.seen = "after_poll"
    /\ call.done
    /\ call.result.kind = "Response"
    /\ ~call.timed_out
    /\ CancellationError(call)

\* C25: a timed-out attempt counts as exactly one failed attempt with the
\* timeout error, whatever its worker writes afterwards, and the result
\* container the caller reads in a later attempt is written only by that
\* attempt's own worker, so a response the call accepts is the one that
\* worker's invocation returned
C25_AbandonedWorkerHasNoEffect ==
    [][/\ (/\ call.pc = "after_poll"
           /\ call.timed_out
           /\ ~call.cancelled_during_poll
           /\ ~interrupted
           /\ call'.pc # call.pc) =>
               /\ call'.pc = "final_check"
               /\ call'.attempts = call.attempts + 1
               /\ call'.last_error = TimeoutError
       /\ call'.writer \in {0, call'.starts}
       /\ call'.done => call'.writer = call'.starts
       /\ call'.accepted => call'.ret = Response(call'.workerInv)]_vars

\* C25 witness: the first attempt timed out, its worker invoked the
\* operation after the second attempt's worker had and finished, and the
\* call returned the response of the second attempt's own invocation
C25_Witness ==
    /\ call.pc = "returned"
    /\ call.timeouts = 1
    /\ call.starts = 2
    /\ call.opCalls = 2
    /\ call.workerInv = 1
    /\ call.lateSpawned = 0
    /\ call.lateRunning = 0
    /\ call.accepted
    /\ call.ret = Response(call.workerInv)

\* the caller is about to take the outcome of an attempt whose worker
\* invoked the operation and the invocation completed without raising
CompletedWithoutRaising(c) ==
    /\ PollExitedOnDone(c)
    /\ c.worker = "finished"
    /\ ~Truthy(c.error)

\* C26 as stated: when an invocation completed without raising and no
\* cancellation is observed, the call returns what the invocation returned,
\* whatever that value is, and starts no further attempt
C26_CompletedInvocationReturned ==
    [][(/\ CompletedWithoutRaising(call)
        /\ ~interrupted
        /\ call'.pc # call.pc) =>
            /\ call'.pc = "returned"
            /\ call'.ret = call.result
            /\ call'.starts = call.starts]_vars

\* C26 amended: such a call returns the invocation's response and starts no
\* further attempt when the response is not None; when the operation
\* returned None the attempt is counted as failed with the unknown error
C26_CompletedInvocationReturnedUnlessNone ==
    [][(/\ CompletedWithoutRaising(call)
        /\ ~interrupted
        /\ call'.pc # call.pc) =>
            IF call.result.kind # "None"
            THEN /\ call'.pc = "returned"
                 /\ call'.accepted
                 /\ call'.ret = call.result
                 /\ call'.ret = Response(call.workerInv)
                 /\ call'.starts = call.starts
            ELSE /\ call'.pc = "final_check"
                 /\ call'.attempts = call.attempts + 1
                 /\ call'.last_error = UnknownError]_vars

\* C26 witness: the operation returned None on the first attempt and a
\* response on the second, and the call returned that response
C26_Witness ==
    /\ call.pc = "returned"
    /\ call.accepted
    /\ call.starts = 2
    /\ call.opCalls = 2
    /\ call.last_error = UnknownError
    /\ call.ret = Response(2)

\* C30: a probe changes neither the job store nor the map of tracked ids
C30_ProbeChangesNothing ==
    [][event'.kind = "probe" =>
          /\ store' = store
          /\ node_state' = node_state]_vars

\* C30 witness: a node that tracks an id with no record in the store has
\* been probed, and the map still holds that id
C30_Witness ==
    /\ event.kind = "probe"
    /\ node_state[event.who] \in JobIds
    /\ ~InStore(store, node_state[event.who])

\* ------------------------------------------------------------------------
\* The job service: its methods, its polling threads and its cleanup thread
\* ------------------------------------------------------------------------
storeVars == <<store, nextId, thread, getter, node_state, projCount, writes,
               firstDelivery, job_store_lock>>

\* `with self._lock:` run by actor
WithServiceLock(actor) ==
    /\ service_lock = Free
    /\ service_lock' = release(actor)

\* a thread of the host that calls a method of the service
Caller == Actor("caller", "", 0)

\* a dict of fields passed to dict.update: "" and Absent stand for a key
\* that the dict does not have
Dict(status, result, error) == [status |-> status, result |-> result, error |-> error]

\* dict.update(d)
Update(rec, d) ==
    [rec EXCEPT !.status = IF d.status # "" THEN d.status ELSE @,
                !.result = IF d.result # Absent THEN d.result ELSE @,
                !.error = IF d.error # Absent THEN d.error ELSE @]

\* the update_data of the callers of update_job: the statuses of a job, with
\* the result or the error that goes with them
UpdateData ==
    {Dict(s, Absent, Absent) : s \in {"pending", "delivered", "error"}}
    \cup {Dict("completed_pending_delivery", Response(1), Absent)}
    \cup {Dict(s, Absent, Msg("Processing function failed for job")) :
             s \in {"failed", "processing_error"}}

\* register_job lines 47-62: the record of a new job, with the result of a
\* synchronous one
register_job_record(job_id, job_type, is_sync, result, t) ==
    LET rec == [NoJob EXCEPT !.status = "pending", !.type = job_type,
                             !.last_updated = t, !.nodes_using = job_id]
    IN  IF is_sync /\ result # None
        THEN Update(rec, Dict("completed_pending_delivery", result, Absent))
        ELSE rec

\* register_job: api_key tells whether an API key is passed; an asynchronous
\* job with a key gets a polling thread, started inside the lock
register_job(job_type, api_key, is_sync, result) ==
    /\ nextJob <= MaxServiceJobs
    /\ WithServiceLock(Caller)
    /\ jobs' = [jobs EXCEPT ![nextJob] =
                   register_job_record(nextJob, job_type, is_sync, result, now)]
    /\ sets' = [sets EXCEPT ![nextJob] = {}]
    /\ polling' = IF ~(is_sync /\ result # None) /\ ~is_sync /\ api_key
                  THEN [polling EXCEPT ![nextJob] = [NoPoll EXCEPT !.pc = "start"]]
                  ELSE polling
    /\ nextJob' = nextJob + 1
    /\ handed' = NoDict
    /\ UNCHANGED <<now, is_running, cleanup_thread, using>>
    /\ UNCHANGED <<storeVars, probeVars, batchVars, retryVars, throw_errors, interrupted>>
    /\ event' = NoEvent

\* update_job writing the fields of an id that is not a key as a new record
update_job_record_upsert(js, job_id, update_data, t) ==
    IF job_id \in ServiceJobIds
    THEN [js EXCEPT ![job_id] =
             [Update(IF InJobs(js, job_id) THEN @ ELSE [NoJob EXCEPT !.status = "pending"],
                     update_data) EXCEPT !.last_updated = t]]
    ELSE js

\* update_job lines 85-88
update_job_record(js, job_id, update_data, t) ==
    IF InJobs(js, job_id)
    THEN [js EXCEPT ![job_id] = [Update(@, update_data) EXCEPT !.last_updated = t]]
    ELSE js

\* update_job: True if the job exists and was updated, False otherwise.  The
\* event holds the id, the fields of update_data and the value returned.
update_job(job_id, update_data) ==
    /\ WithServiceLock(Caller)
    /\ jobs' = update_job_record(jobs, job_id, update_data, now)
    /\ handed' = NoDict
    /\ UNCHANGED <<sets, now, is_running, cleanup_thread, polling, nextJob, using>>
    /\ UNCHANGED <<storeVars, probeVars, batchVars, retryVars, throw_errors, interrupted>>
    /\ event' = [NoEvent EXCEPT !.kind = "update_job", !.job_id = job_id,
                                 !.status = update_data.status,
                                 !.ret = update_data.result,
                                 !.error = update_data.error,
                                 !.value = IF InJobs(jobs, job_id) THEN PyTrue ELSE PyFalse]

\* _poll_job_status lines 113-115: the job type is stored again
PollStart(j) ==
    /\ polling[j].pc = "start"
    /\ WithServiceLock(Actor("poller", "", j))
    /\ jobs' = IF InJobs(jobs, j) THEN [jobs EXCEPT ![j].type = "t2i"] ELSE jobs
    /\ polling' = [polling EXCEPT ![j].pc = "execute"]
    /\ UNCHANGED <<sets, now, is_running, cleanup_thread, nextJob, using, handed>>
    /\ UNCHANGED <<storeVars, probeVars, batchVars, retryVars, throw_errors, interrupted>>
    /\ event' = NoEvent

\* _poll_job_status line 127: execute_with_retry on the polling thread,
\* outside the lock
PollExecute(j) ==
    /\ polling[j].pc = "execute"
    /\ \E o \in RunTable[1, interrupted, throw_errors] :
          /\ polling' = [polling EXCEPT ![j].pc = "store", ![j].retKind = o.retKind,
                                        ![j].ret = o.ret]
          /\ interrupted' = o.intr
    /\ UNCHANGED <<jobs, sets, now, is_running, cleanup_thread, nextJob, using, handed,
                   service_lock>>
    /\ UNCHANGED <<storeVars, probeVars, batchVars, retryVars, throw_errors>>
    /\ event' = NoEvent

\* the store of the outcome without the test `if job_id in self._jobs`
poll_job_status_store_unchecked(js, j, p, t) ==
    IF p.retKind = "return"
    THEN [js EXCEPT ![j] = [Update(@, Dict("completed_pending_delivery", p.ret, Absent))
                               EXCEPT !.last_updated = t]]
    ELSE [js EXCEPT ![j] = [Update(@, Dict("failed", Absent, Str(p.ret)))
                               EXCEPT !.last_updated = t]]

\* _poll_job_status lines 130-136 and 140-148: the outcome is stored under
\* the lock if the record is still there
poll_job_status_store(js, j, p, t) ==
    IF ~InJobs(js, j) THEN js
    ELSE IF p.retKind = "return"
    THEN [js EXCEPT ![j] = [Update(@, Dict("completed_pending_delivery", p.ret, Absent))
                               EXCEPT !.last_updated = t]]
    ELSE [js EXCEPT ![j] = [Update(@, Dict("failed", Absent, Str(p.ret)))
                               EXCEPT !.last_updated = t]]

\* the store, and lines 149-153: the thread reference is deleted
PollStore(j) ==
    /\ polling[j].pc = "store"
    /\ WithServiceLock(Actor("poller", "", j))
    /\ jobs' = poll_job_status_store(jobs, j, polling[j], now)
    /\ polling' = [polling EXCEPT ![j] = NoPoll]
    /\ UNCHANGED <<sets, now, is_running, cleanup_thread, nextJob, using, handed>>
    /\ UNCHANGED <<storeVars, probeVars, batchVars, retryVars, throw_errors, interrupted>>
    /\ event' = [NoEvent EXCEPT !.kind = "poller", !.job_id = j, !.how = polling[j].retKind]

\* `if node_unique_id: self._jobs[job_id]['nodes_using'].add(node_unique_id)`
nodes_using_add(js, ss, job_id, node_unique_id) ==
    IF InJobs(js, job_id) /\ node_unique_id # NoNode
    THEN [ss EXCEPT ![js[job_id].nodes_using] = @ \cup {node_unique_id}]
    ELSE ss

Noted(u, js, job_id, node_unique_id) ==
    IF InJobs(js, job_id) /\ node_unique_id # NoNode
    THEN [u EXCEPT ![job_id] = @ \cup {node_unique_id}]
    ELSE u

\* get_job_status: the status is returned and the node, if any, is added
get_job_status(job_id, node_unique_id) ==
    /\ WithServiceLock(Caller)
    /\ sets' = nodes_using_add(jobs, sets, job_id, node_unique_id)
    /\ using' = Noted(using, jobs, job_id, node_unique_id)
    /\ handed' = NoDict
    /\ UNCHANGED <<jobs, now, is_running, cleanup_thread, polling, nextJob>>
    /\ UNCHANGED <<storeVars, probeVars, batchVars, retryVars, throw_errors, interrupted>>
    /\ event' = [NoEvent EXCEPT !.kind = "get_job_status", !.job_id = job_id,
                                 !.status = IF InJobs(jobs, job_id)
                                            THEN jobs[job_id].status ELSE "not_found"]

\* dict.copy(): a new dict with the same values; the copy of a record holds
\* the same set object in nodes_using
copy(rec) == rec

\* get_job_data: the node, if any, is added and a copy is returned, None for
\* an id that is not registered
get_job_data(job_id, node_unique_id) ==
    /\ WithServiceLock(Caller)
    /\ sets' = nodes_using_add(jobs, sets, job_id, node_unique_id)
    /\ using' = Noted(using, jobs, job_id, node_unique_id)
    /\ handed' = IF InJobs(jobs, job_id)
                 THEN [job_id |-> job_id, data |-> copy(jobs[job_id])]
                 ELSE NoDict
    /\ UNCHANGED <<jobs, now, is_running, cleanup_thread, polling, nextJob>>
    /\ UNCHANGED <<storeVars, probeVars, batchVars, retryVars, throw_errors, interrupted>>
    /\ event' = NoEvent

\* update_processed_data lines 228-232
update_processed_data_record(js, job_id, t) ==
    IF InJobs(js, job_id)
    THEN [js EXCEPT ![job_id].processed = TRUE, ![job_id].status = "delivered",
                    ![job_id].last_updated = t]
    ELSE js

update_processed_data(job_id) ==
    /\ WithServiceLock(Caller)
    /\ jobs' = update_processed_data_record(jobs, job_id, now)
    /\ handed' = NoDict
    /\ UNCHANGED <<sets, now, is_running, cleanup_thread, polling, nextJob, using>>
    /\ UNCHANGED <<storeVars, probeVars, batchVars, retryVars, throw_errors, interrupted>>
    /\ event' = NoEvent

\* remove_node_from_job: set.discard
remove_node_from_job(job_id, node_unique_id) ==
    /\ WithServiceLock(Caller)
    /\ sets' = IF InJobs(jobs, job_id)
               THEN [sets EXCEPT ![jobs[job_id].nodes_using] = @ \ {node_unique_id}]
               ELSE sets
    /\ using' = IF InJobs(jobs, job_id)
                THEN [using EXCEPT ![job_id] = @ \ {node_unique_id}] ELSE using
    /\ handed' = NoDict
    /\ UNCHANGED <<jobs, now, is_running, cleanup_thread, polling, nextJob>>
    /\ UNCHANGED <<storeVars, probeVars, batchVars, retryVars, throw_errors, interrupted>>
    /\ event' = NoEvent

\* the caller of get_job_data changes the dict it was handed: it replaces a
\* field, or adds a node to or removes one from the set in nodes_using
CallerReplacesField ==
    /\ handed.job_id # NoId
    /\ \E s \in {"pending", "delivered"} : handed' = [handed EXCEPT !.data.status = s]
    /\ UNCHANGED <<jobs, sets, now, is_running, cleanup_thread, polling, nextJob, using,
                   service_lock>>
    /\ UNCHANGED <<storeVars, probeVars, batchVars, retryVars, throw_errors, interrupted>>
    /\ event' = NoEvent

CallerMutatesSet ==
    /\ handed.job_id # NoId
    /\ \E n \in Nodes :
          \/ sets' = [sets EXCEPT ![handed.data.nodes_using] = @ \cup {n}]
          \/ sets' = [sets EXCEPT ![handed.data.nodes_using] = @ \ {n}]
    /\ UNCHANGED <<jobs, now, is_running, cleanup_thread, polling, nextJob, using, handed,
                   service_lock>>
    /\ UNCHANGED <<storeVars, probeVars, batchVars, retryVars, throw_errors, interrupted>>
    /\ event' = NoEvent

\* _cleanup_expired_jobs lines 273-275
is_terminal(job_data) == job_data.status \in {"delivered", "failed", "error"}

no_nodes(ss, job_data) == ss[job_data.nodes_using] = {}

is_old(t, job_data) == t - job_data.last_updated > EXPIRY

\* _cleanup_expired_jobs lines 270-281: the ids to remove
to_remove(js, ss, t) ==
    {j \in ServiceJobIds :
        /\ InJobs(js, j)
        /\ is_terminal(js[j]) /\ no_nodes(ss, js[j]) /\ is_old(t, js[j])}

\* one pass of the loop of _cleanup_expired_jobs: the clock is read, the
\* expired jobs are deleted under the lock and the thread goes to sleep
CleanupPass ==
    /\ cleanup_thread = "pass"
    /\ WithServiceLock(Actor("cleanup", "", 0))
    /\ jobs' = [j \in ServiceJobIds |->
                  IF j \in to_remove(jobs, sets, now) THEN NoJob ELSE jobs[j]]
    /\ cleanup_thread' = "sleep"
    /\ UNCHANGED <<sets, now, is_running, polling, nextJob, using, handed>>
    /\ UNCHANGED <<storeVars, probeVars, batchVars, retryVars, throw_errors, interrupted>>
    /\ event' = NoEvent

\* time.sleep(300) returns, outside the lock, and `while self._is_running`
\* is tested
CleanupSleep ==
    /\ cleanup_thread = "sleep"
    /\ cleanup_thread' = IF is_running THEN "pass" ELSE "stopped"
    /\ UNCHANGED <<jobs, sets, now, is_running, polling, nextJob, using, handed,
                   service_lock>>
    /\ UNCHANGED <<storeVars, probeVars, batchVars, retryVars, throw_errors, interrupted>>
    /\ event' = NoEvent

\* shutdown
shutdown ==
    /\ is_running
    /\ is_running' = FALSE
    /\ UNCHANGED <<jobs, sets, now, cleanup_thread, polling, nextJob, using, handed,
                   service_lock>>
    /\ UNCHANGED <<storeVars, probeVars, batchVars, retryVars, throw_errors, interrupted>>
    /\ event' = NoEvent

\* time passes
Tick ==
    /\ now < MaxTime
    /\ now' = now + 1
    /\ UNCHANGED <<jobs, sets, is_running, cleanup_thread, polling, nextJob, using,
                   handed, service_lock>>
    /\ UNCHANGED <<storeVars, probeVars, batchVars, retryVars, throw_errors, interrupted>>
    /\ event' = NoEvent

InitServiceSpec ==
    /\ call = NoCall
    /\ intrWhen = NotInterrupted
    /\ interrupted = FALSE
    /\ throw_errors = FALSE
    /\ getter = [g \in Getters |-> IdleGetter]
    /\ InitJobs

\* the service with callers that register their jobs without an API key, so
\* that no polling thread is started
NextService ==
    \/ \E is_sync \in BOOLEAN, result \in {None, Response(1)} :
          register_job("t2i", FALSE, is_sync, result)
    \/ \E j \in ServiceJobIds, d \in UpdateData : update_job(j, d)
    \/ \E j \in ServiceJobIds, n \in Nodes \cup {NoNode} : get_job_status(j, n)
    \/ \E j \in ServiceJobIds, n \in Nodes \cup {NoNode} : get_job_data(j, n)
    \/ \E j \in ServiceJobIds : update_processed_data(j)
    \/ \E j \in ServiceJobIds, n \in Nodes : remove_node_from_job(j, n)
    \/ CallerReplacesField
    \/ CallerMutatesSet
    \/ CleanupPass
    \/ CleanupSleep
    \/ shutdown
    \/ Tick

SpecService == InitServiceSpec /\ [][NextService]_vars

\* ------------------------------------------------------------------------
\* The sweep of the job service
\* ------------------------------------------------------------------------
\* a step that is one pass of the sweep
SweepPass == cleanup_thread = "pass" /\ cleanup_thread' = "sleep"

\* the record of job j is referenced by no node: no node is in its set and
\* none was added by get_job_status / get_job_data without being removed
Unreferenced(j) == sets[jobs[j].nodes_using] = {} /\ using[j] = {}

Expired(j) == now - jobs[j].last_updated > EXPIRY

SweepRemovesExpired(statuses) ==
    SweepPass =>
        \A j \in ServiceJobIds :
            (InJobs(jobs, j) /\ jobs[j].status \in statuses /\ Unreferenced(j) /\ Expired(j))
                => ~InJobs(jobs', j)

\* C27: each pass of the sweep removes every record that is in a terminal
\* status (delivered, failed, or an error status such as processing_error),
\* is referenced by no node and was last updated longer ago than the expiry
\* threshold, so that none remains after the pass
C27_SweepRemovesTerminalExpired ==
    [][SweepRemovesExpired({"delivered", "failed", "error", "processing_error"})]_vars

\* the part of C27 that the sweep meets: the statuses of its own list
C27_SweepRemovesListedStatuses ==
    [][SweepRemovesExpired({"delivered", "failed", "error"})]_vars

C27_ListedWitness ==
    /\ cleanup_thread = "pass"
    /\ \E j \in ServiceJobIds :
          InJobs(jobs, j) /\ jobs[j].status = "failed" /\ Unreferenced(j) /\ Expired(j)

SweepKeeps(Referenced(_)) ==
    SweepPass =>
        /\ \A j \in ServiceJobIds :
              (InJobs(jobs, j) /\ (\/ jobs[j].status \in {"pending", "completed_pending_delivery"}
                                   \/ Referenced(j)
                                   \/ now - jobs[j].last_updated <= EXPIRY))
                  => InJobs(jobs', j)
        /\ \A j \in ServiceJobIds :
              InJobs(jobs', j) => jobs'[j] = jobs[j] /\ sets'[j] = sets[j]

AddedNotRemoved(j) == using[j] # {}

InStoredSet(j) == sets[jobs[j].nodes_using] # {}

\* C28: the sweep never removes a record that is pending or
\* completed_pending_delivery, nor one that a node still references (added
\* by get_job_status / get_job_data and not yet removed by
\* remove_node_from_job), nor one updated within the expiry threshold, and
\* it leaves the records it does not remove unchanged
C28_SweepKeepsLiveRecords == [][SweepKeeps(AddedNotRemoved)]_vars

\* the part of C28 that the sweep meets: a record whose stored set holds a
\* node is kept
C28_SweepKeepsRecordsWithNodes == [][SweepKeeps(InStoredSet)]_vars

C28_NodesWitness ==
    /\ cleanup_thread = "pass"
    /\ \E j \in ServiceJobIds :
          /\ InJobs(jobs, j) /\ jobs[j].status = "delivered" /\ Expired(j)
          /\ InStoredSet(j)

\* C29: the record handed out by a store read is a copy: no change that the
\* caller makes to it (replacing a field, or mutating the value of a field
\* such as the nodes_using set) changes the stored record
C29_HandedRecordIsACopy ==
    [][(CallerReplacesField \/ CallerMutatesSet) =>
          /\ jobs' = jobs
          /\ \A j \in ServiceJobIds :
                InJobs(jobs, j) => sets'[jobs[j].nodes_using] = sets[jobs[j].nodes_using]]_vars

\* the part of C29 that the copy meets: replacing a field of the handed dict
\* leaves the stored record as it is
C29_ReplacingAFieldIsLocal ==
    [][CallerReplacesField =>
          /\ jobs' = jobs
          /\ \A j \in ServiceJobIds :
                InJobs(jobs, j) => sets'[jobs[j].nodes_using] = sets[jobs[j].nodes_using]]_vars

\* ------------------------------------------------------------------------
\* SpecLocks: the threads that take a lock around slow work.  An
\* asynchronous job with its execution thread and a getter on the job
\* store; a job of the service with its polling thread, and the cleanup
\* thread
\* ------------------------------------------------------------------------
NextLocks ==
    \/ trigger_async_job("LivepeerT2I", 1)
    \/ \E sub \in {"LivepeerT2I"} : SubmitSync(sub, 1)
    \/ \E j \in JobIds : ThreadStart(j)
    \/ \E j \in JobIds : ThreadExecute(j)
    \/ \E j \in JobIds : ThreadStore(j)
    \/ \E job_id \in JobIds : GetterCall("g1", job_id)
    \/ GetterRead("g1")
    \/ GetterProcess("g1")
    \/ IS_CHANGED("g1")
    \/ \E is_sync \in BOOLEAN : register_job("t2i", TRUE, is_sync, None)
    \/ \E j \in ServiceJobIds : PollStart(j)
    \/ \E j \in ServiceJobIds : PollExecute(j)
    \/ \E j \in ServiceJobIds : PollStore(j)
    \/ \E j \in ServiceJobIds : get_job_data(j, NoNode)
    \/ CleanupPass
    \/ CleanupSleep
    \/ shutdown

SpecLocks == InitServiceSpec /\ [][NextLocks]_vars

\* the threads that are at slow work: the execution thread of job j in
\* execute_with_retry (the vendor operation, the poll of its worker and the
\* delay between attempts), a getter about to run its projector, a polling
\* thread of the service in execute_with_retry, the cleanup thread asleep
AtSlowWork ==
    {Actor("thread", "", j) : j \in {i \in JobIds : thread[i].pc = "execute"}}
    \cup {Actor("getter", g, 0) : g \in {h \in Getters : getter[h].pc = "process"}}
    \cup {Actor("poller", "", j) : j \in {i \in ServiceJobIds : polling[i].pc = "execute"}}
    \cup {Actor("cleanup", "", 0) : x \in {y \in {0} : cleanup_thread = "sleep"}}

\* C23: in every reachable state a thread that is executing the vendor
\* operation, a projector, or a polling, retry-delay or sweep sleep does not
\* hold the lock of a job store; a lock is held only for the duration of an
\* in-memory read or update of the store, so that between the steps of the
\* threads it is free
C23_NoLockAcrossSlowWork ==
    /\ job_store_lock \notin AtSlowWork
    /\ service_lock \notin AtSlowWork
    /\ job_store_lock = Free
    /\ service_lock = Free

\* C23 witness: an execution thread and a polling thread are in
\* execute_with_retry while the cleanup thread sleeps, each after a block
\* under its lock
C23_Witness ==
    /\ \E j \in JobIds : thread[j].pc = "execute"
    /\ \E j \in ServiceJobIds : polling[j].pc = "execute"
    /\ cleanup_thread = "sleep"

\* ------------------------------------------------------------------------
\* update_job of the job service
\* ------------------------------------------------------------------------
\* a step that is a call of update_job
UpdateJobStep == event'.kind = "update_job" /\ service_lock' = Free /\ handed' = NoDict

\* C31: update_job on an id that is not in the store returns False and
\* leaves the store unchanged; on an id that is in the store it merges the
\* given fields into that record only, sets its last_updated, and returns
\* True
C31_UpdateJob ==
    [][UpdateJobStep =>
          LET j == event'.job_id
              d == Dict(event'.status, event'.ret, event'.error)
          IN  IF ~InJobs(jobs, j)
              THEN event'.value = PyFalse /\ jobs' = jobs /\ sets' = sets
              ELSE /\ event'.value = PyTrue
                   /\ jobs'[j].status = (IF d.status # "" THEN d.status ELSE jobs[j].status)
                   /\ jobs'[j].result = (IF d.result # Absent THEN d.result ELSE jobs[j].result)
                   /\ jobs'[j].error = (IF d.error # Absent THEN d.error ELSE jobs[j].error)
                   /\ jobs'[j].last_updated = now
                   /\ jobs'[j].type = jobs[j].type
                   /\ jobs'[j].nodes_using = jobs[j].nodes_using
                   /\ jobs'[j].processed = jobs[j].processed
                   /\ \A i \in ServiceJobIds \ {j} : jobs'[i] = jobs[i]
                   /\ sets' = sets]_vars

\* C31 witness: update_job has returned False for an id that is not in the
\* store, after it had been swept
C31_Witness ==
    /\ event.kind = "update_job"
    /\ event.value = PyFalse
    /\ event.job_id < nextJob
    /\ ~InJobs(jobs, event.job_id)

\* ------------------------------------------------------------------------
\* Termination of execute_with_retry
\* ------------------------------------------------------------------------
\* C32: every call of execute_with_retry terminates (it returns a response,
\* raises the cancellation error or reports exhausted retries) after
\* starting at most max_retries invocations of the operation, also when
\* some worker threads never finish: each such attempt is ended by the
\* per-attempt timeout
C32_CallTerminates ==
    /\ [](call.starts <= call.max_retries /\ call.opCalls <= call.max_retries)
    /\ <>(/\ Terminal(call)
          /\ \/ call.retKind = "return" /\ call.accepted /\ call.ret.kind = "Response"
             \/ call.retKind = "raise" /\ call.ret.kind = "InterruptProcessingException"
             \/ Exhausted(call.ret))

\* C32 witness: the call has ended with every attempt ended by the timeout,
\* and the worker of its last attempt has not finished
C32_Witness ==
    /\ Terminal(call)
    /\ call.timeouts = call.max_retries
    /\ call.max_retries = MaxRetries
    /\ call.worker \in {"spawned", "running"}

\* ------------------------------------------------------------------------
\* The retry delay of execute_with_retry
\* ------------------------------------------------------------------------
RECURSIVE Pow(_, _)
Pow(b, e) == IF e = 0 THEN 1 ELSE b * Pow(b, e - 1)

InDelay(c) == c.pc \in {"delay", "delay_sleep"}

\* C33: with initial delay d, the wait between failed attempt k and attempt
\* k+1 lasts at least d * 1.5^(k-1); the wait ends early only by raising the
\* cancellation error; no wait follows the final failed attempt, and every
\* attempt after the first follows a wait
C33_BackoffDelay ==
    [][/\ (InDelay(call) /\ ~InDelay(call')) =>
             \/ /\ call'.pc = "loop"
                /\ call.elapsed * Pow(2, call.attempts - 1)
                      >= RetryDelay * Pow(3, call.attempts - 1)
             \/ /\ call'.pc = "raised"
                /\ call'.ret.kind = "InterruptProcessingException"
       /\ (call.pc = "final_check" /\ call.attempts = call.max_retries) => ~InDelay(call')
       /\ (call.pc = "final_check" /\ call.attempts < call.max_retries) =>
             call'.pc \in {"final_check", "delay", "raised"}
       /\ (call.pc = "loop" /\ call'.pc = "poll") => call.backoffs = call.attempts]_vars

\* C33 witness: the third attempt has started after two waits, the second
\* of which lasted one and a half times the initial delay
C33_Witness ==
    /\ call.starts = 3
    /\ call.backoffs = 2
    /\ call.elapsed * 2 = RetryDelay * 3

\* ------------------------------------------------------------------------
\* Delivered records that lack cache fields
\* ------------------------------------------------------------------------
\* the record is delivered but lacks a cache field of class cls
Lacking(rec, cls) == rec.status = "delivered" /\ ~AllKeysPresent(rec, cls)

\* two consecutive probes of g on a job whose record lacks a cache field: the
\* probe reports changed
LackingProbeChanges(g) ==
    (/\ ProbedAgain(g)
     /\ InStore(store, event.job_id)
     /\ Lacking(store[event.job_id], GetterClass(g)))
        => event'.value # event.value

\* the getter reads such a record of a type it expects: it goes on to project
\* the stored raw result
LackingReadProjects(g) ==
    (/\ getter[g].pc = "read" /\ getter'[g].pc # "read"
     /\ InStore(store, getter[g].job_id)
     /\ Lacking(store[getter[g].job_id], GetterClass(g))
     /\ store[getter[g].job_id].type \in EXPECTED_JOB_TYPES(GetterClass(g)))
        => /\ getter'[g].pc = "process"
           /\ getter'[g].job_info.result = store[getter[g].job_id].result

\* the projection of such a record succeeded
LackingProjected(g) ==
    /\ getter[g].pc = "process" /\ getter'[g].pc = "idle"
    /\ Lacking(getter[g].job_info, GetterClass(g))
    /\ event'.status = "delivered"

\* after it the record holds every cache field and is delivered, and the
\* probe of the node returns its stable value
LackingSettles(g) ==
    LackingProjected(g) =>
        LET j == getter[g].job_id
        IN  /\ InStore(store', j)
            /\ store'[j].status = "delivered"
            /\ AllKeysPresent(store'[j], GetterClass(g))
            /\ is_changed(GetterClass(g), node_state'[g], store', None).kind # "float"

C34_ChangesAndProjects ==
    [][\A g \in Getters : LackingProbeChanges(g) /\ LackingReadProjects(g)]_vars

C34_Settles == [][\A g \in Getters : LackingSettles(g)]_vars

\* delivered records that lack a cache field of the getter that reads them.
\* No writer of the job store produces one (the projectors store every key of
\* their class); _get_or_process_job_result lines 258-260 and IS_CHANGED
\* lines 112-134 handle the record as an input, and so it is drawn here: the
\* raw result with no cache field, or with the cache fields of one class
LackingRecords ==
    {[NoRecord EXCEPT !.status = "delivered", !.type = JOB_TYPE(sub),
                      !.result = Response(1), !.processed = p] :
        sub \in GetterSubmitters,
        p \in {NoProcessed}
                \cup {processed_data_to_store(c, Response(1),
                            processed_outputs(c, Response(1), PyTrue)) :
                        c \in GetterClasses}}

InitLacking ==
    /\ call = NoCall
    /\ intrWhen = NotInterrupted
    /\ interrupted = FALSE
    /\ throw_errors = TRUE
    /\ \E nodes \in GetterNodes :
          getter = [g \in Getters |-> [IdleGetter EXCEPT !.cls = nodes[g]]]
    /\ \E rec \in LackingRecords : store = [j \in JobIds |-> rec]
    /\ nextId = MaxJobs + 1
    /\ thread = [j \in JobIds |-> NoThread]
    /\ node_state = [g \in Getters |-> NoId]
    /\ event = NoEvent
    /\ projCount = [j \in JobIds |-> 0]
    /\ writes = [j \in JobIds |-> <<>>]
    /\ firstDelivery = [j \in JobIds |-> <<>>]
    /\ job_store_lock = Free
    /\ node_state_lock = Free
    /\ probe = [g \in Getters |-> NoProbe]
    /\ batch_iterators = [id \in Ids |-> NoState]
    /\ instances = [i \in Instances |-> NoInstance]
    /\ InitService

NextLacking ==
    \/ \E g \in Getters, job_id \in JobIds \cup {NoId} : GetterCall(g, job_id)
    \/ \E g \in Getters : GetterRead(g)
    \/ \E g \in Getters : GetterProcess(g)
    \/ \E g \in Getters : IS_CHANGED(g)

SpecLacking == InitLacking /\ [][NextLacking]_vars

\* a getter call projected a delivered record that lacked a cache field
C34_Witness ==
    /\ event.kind = "getter"
    /\ event.status = "delivered"
    /\ Lacking(event.read, GetterClass(event.who))
    /\ AllKeysPresent(store[event.job_id], GetterClass(event.who))

\* ------------------------------------------------------------------------
\* Cache fields and the status delivered
\* ------------------------------------------------------------------------
\* the getters that can deliver the record of j: those that expect its type
\* (_get_or_process_job_result lines 240-247 return type_mismatch otherwise)
Delivers(g, j) == store[j].type \in EXPECTED_JOB_TYPES(GetterClass(g))

\* a delivered record holds every cache field of the getter that delivered it
DeliveredHoldsCache ==
    \A j \in JobIds, g \in Getters :
        (InStore(store, j) /\ Delivers(g, j) /\ store[j].status = "delivered")
            => AllKeysPresent(store[j], GetterClass(g))

\* a record that holds every cache field of its getter is delivered
CacheHeldIsDelivered ==
    \A j \in JobIds, g \in Getters :
        (InStore(store, j) /\ Delivers(g, j) /\ AllKeysPresent(store[j], GetterClass(g)))
            => store[j].status = "delivered"

\* C35: in every reachable state a record whose status is delivered holds
\* every cache field of the getter that delivered it, and a record that holds
\* those cache fields has status delivered
C35_DeliveredIffCached == DeliveredHoldsCache /\ CacheHeldIsDelivered

\* ------------------------------------------------------------------------
\* Later calls on a delivered job
\* ------------------------------------------------------------------------
\* the call of g that is about to return is on the id g itself last returned
\* delivered for: a later call on that job by an instance that expects its
\* type (_last_delivered_id, lines 277 and 306)
LaterCall(g) ==
    /\ getter[g].pc \in {"read", "process"}
    /\ getter[g].job_id \in JobIds
    /\ getter[g].last_delivered_id = getter[g].job_id
    /\ firstDelivery[getter[g].job_id] # <<>>

\* C36: once a getter call has returned delivered for a job, every later
\* getter call on it by an instance that expects its type returns delivered
\* with the same leading outputs, whatever other instances do in between
C36_DeliveredStaysDelivered ==
    [][\A g \in Getters :
          (LaterCall(g) /\ getter'[g].pc = "idle")
              => /\ event'.status = "delivered"
                 /\ event'.outputs = firstDelivery[getter[g].job_id]]_vars

\* ------------------------------------------------------------------------
\* Records removed while their thread runs
\* ------------------------------------------------------------------------
\* SpecRemoval: an asynchronous job of the job store with its execution
\* thread and a getter; a job of the service with its polling thread, the
\* callers of update_job and get_job_status, the sweep and the clock
NextRemoval ==
    \/ trigger_async_job("LivepeerT2I", 1)
    \/ \E j \in JobIds : ThreadStart(j)
    \/ \E j \in JobIds : ThreadExecute(j)
    \/ \E j \in JobIds : ThreadStore(j)
    \/ \E job_id \in JobIds : GetterCall("g1", job_id)
    \/ GetterRead("g1")
    \/ GetterProcess("g1")
    \/ register_job("t2i", TRUE, FALSE, None)
    \/ \E j \in ServiceJobIds : PollStart(j)
    \/ \E j \in ServiceJobIds : PollExecute(j)
    \/ \E j \in ServiceJobIds : PollStore(j)
    \/ \E j \in ServiceJobIds : update_job(j, Dict("error", Absent, Absent))
    \/ \E j \in ServiceJobIds : get_job_status(j, NoNode)
    \/ CleanupPass
    \/ CleanupSleep
    \/ Tick

SpecRemoval == InitServiceSpec /\ [][NextRemoval]_vars

\* the execution thread of j in the job store has not completed
ThreadRunning(j) == thread[j].pc \in {"start", "execute", "store"}

\* the polling thread of j in the service has not completed
PollerRunning(j) == polling[j].pc \in {"start", "execute", "store"}

\* a thread of the job store runs, or completes, with its record absent:
\* the record stays absent and a getter call that reads the id returns
\* not_found
StoreStaysAbsent ==
    \A j \in JobIds :
        (ThreadRunning(j) /\ ~InStore(store, j))
            => /\ ~InStore(store', j)
               /\ \A g \in Getters :
                     (getter[g].pc = "read" /\ getter[g].job_id = j
                        /\ getter'[g].pc = "idle")
                        => event'.status = "not_found"

\* the same for a polling thread of the service and the callers of
\* get_job_status
JobsStayAbsent ==
    \A j \in ServiceJobIds :
        (PollerRunning(j) /\ ~InJobs(jobs, j))
            => /\ ~InJobs(jobs', j)
               /\ (event'.kind = "get_job_status" /\ event'.job_id = j)
                     => event'.status = "not_found"

\* C37: when the record of a job is removed while its background thread
\* still runs, the completion of the thread does not re-create it: the id
\* stays absent and the status that is reported for it is not_found
C37_RemovedStaysRemoved == [][StoreStaysAbsent /\ JobsStayAbsent]_vars

\* the polling thread of a job has just completed and stored nothing: the
\* record was removed while the thread ran, and is absent
C37_Witness ==
    \E j \in ServiceJobIds :
        /\ j < nextJob
        /\ ~InJobs(jobs, j)
        /\ polling[j] = NoPoll
        /\ event.kind = "poller" /\ event.job_id = j

\* ------------------------------------------------------------------------
\* SpecTwoLocks: the critical sections of IS_CHANGED and of the entry of
\* _get_or_process_job_result taken one at a time.  Entering a `with` block
\* and leaving it are separate steps, so that a lock is held between them.
\* ------------------------------------------------------------------------
ProbeActor(g) == Actor("probe", g, 0)

GetterActor(g) == Actor("getter", g, 0)

\* a `with _node_state_lock:` block that is still open when the code after
\* it runs
exit_node_state_late(actor) == actor

\* the end of a `with _node_state_lock:` block (lines 99 and 222, 228): the
\* lock is released before the next statement
exit_node_state(actor) == release(actor)

\* IS_CHANGED lines 90-96: unique_id is given and the block of
\* _node_state_lock is entered
ProbeEnterNodeState(g) ==
    /\ probe[g].pc = "idle"
    /\ PassesUniqueId(GetterClass(g))
    /\ node_state_lock = Free
    /\ node_state_lock' = ProbeActor(g)
    /\ probe' = [probe EXCEPT ![g].pc = "node_state"]
    /\ event' = NoEvent
    /\ UNCHANGED <<storeVars, batchVars, retryVars, throw_errors, interrupted, svcVars>>

\* lines 97-104: current_job_id is read, the block is left, and the probe
\* returns time.time() when there is no id
ProbeExitNodeState(g) ==
    /\ probe[g].pc = "node_state"
    /\ node_state_lock' = exit_node_state(ProbeActor(g))
    /\ IF node_state[g] = NoId
       THEN /\ probe' = [probe EXCEPT ![g] = NoProbe]
            /\ event' = [NoEvent EXCEPT !.kind = "probe", !.who = g,
                                        !.value = time(event.value)]
       ELSE /\ probe' = [probe EXCEPT ![g] = [pc |-> "want_store", job_id |-> node_state[g]]]
            /\ event' = NoEvent
    /\ UNCHANGED <<storeVars, batchVars, retryVars, throw_errors, interrupted, svcVars>>

\* line 107: the block of _job_store_lock is entered
ProbeEnterStore(g) ==
    /\ probe[g].pc = "want_store"
    /\ job_store_lock = Free
    /\ job_store_lock' = ProbeActor(g)
    /\ probe' = [probe EXCEPT ![g].pc = "store"]
    /\ event' = NoEvent
    /\ UNCHANGED <<store, nextId, thread, getter, node_state, projCount, writes,
                   firstDelivery, node_state_lock>>
    /\ UNCHANGED <<batchVars, retryVars, throw_errors, interrupted, svcVars>>

\* lines 108-139: the record is read and the probe returns from inside the
\* block
ProbeExitStore(g) ==
    /\ probe[g].pc = "store"
    /\ job_store_lock' = release(ProbeActor(g))
    /\ probe' = [probe EXCEPT ![g] = NoProbe]
    /\ event' = [NoEvent EXCEPT !.kind = "probe", !.who = g, !.job_id = probe[g].job_id,
                                !.value = is_changed(GetterClass(g), probe[g].job_id, store,
                                                     event.value)]
    /\ UNCHANGED <<store, nextId, thread, getter, node_state, projCount, writes,
                   firstDelivery, node_state_lock>>
    /\ UNCHANGED <<batchVars, retryVars, throw_errors, interrupted, svcVars>>

\* _get_or_process_job_result lines 219-221, 223-226: the entry point is
\* called with job_id and a unique_id and enters the block of
\* _node_state_lock
GetterEnterNodeState(g, job_id) ==
    /\ getter[g].pc = "idle"
    /\ PassesUniqueId(GetterClass(g))
    /\ node_state_lock = Free
    /\ node_state_lock' = GetterActor(g)
    /\ getter' = [getter EXCEPT ![g].pc = "node_state", ![g].job_id = job_id]
    /\ event' = NoEvent
    /\ UNCHANGED <<store, nextId, thread, node_state, projCount, writes, firstDelivery,
                   job_store_lock, probe>>
    /\ UNCHANGED <<batchVars, retryVars, throw_errors, interrupted, svcVars>>

\* lines 222, 227-228 and 206-207: the entry of the node is written, the
\* block is left and _cleanup_supplanted_job compares the ids
GetterExitNodeState(g) ==
    /\ getter[g].pc = "node_state"
    /\ node_state' = [node_state EXCEPT ![g] = getter[g].job_id]
    /\ node_state_lock' = exit_node_state(GetterActor(g))
    /\ getter' = [getter EXCEPT
                    ![g].pc = IF getter[g].job_id # getter[g].last_delivered_id
                                 /\ getter[g].last_delivered_id # NoId
                              THEN "want_cleanup" ELSE "read"]
    /\ event' = NoEvent
    /\ UNCHANGED <<store, nextId, thread, projCount, writes, firstDelivery,
                   job_store_lock, probe>>
    /\ UNCHANGED <<batchVars, retryVars, throw_errors, interrupted, svcVars>>

\* _cleanup_supplanted_job line 208: the block of _job_store_lock is entered
GetterEnterCleanup(g) ==
    /\ getter[g].pc = "want_cleanup"
    /\ job_store_lock = Free
    /\ job_store_lock' = GetterActor(g)
    /\ getter' = [getter EXCEPT ![g].pc = "cleanup"]
    /\ event' = NoEvent
    /\ UNCHANGED <<store, nextId, thread, node_state, projCount, writes, firstDelivery>>
    /\ UNCHANGED <<batchVars, retryVars, probeVars, throw_errors, interrupted, svcVars>>

\* lines 209-214: the supplanted record is evicted if it is delivered, the
\* block is left and the tracker is cleared
GetterExitCleanup(g) ==
    /\ getter[g].pc = "cleanup"
    /\ job_store_lock' = release(GetterActor(g))
    /\ store' = cleanup_supplanted_job(store, getter[g].last_delivered_id, getter[g].job_id)
    /\ getter' = [getter EXCEPT ![g].pc = "read", ![g].last_delivered_id = NoId]
    /\ event' = NoEvent
    /\ UNCHANGED <<nextId, thread, node_state, projCount, writes, firstDelivery>>
    /\ UNCHANGED <<batchVars, retryVars, probeVars, throw_errors, interrupted, svcVars>>

\* two nodes of the class of getters/image.py, which passes unique_id
InitTwoLocks ==
    /\ InitGetters
    /\ \A g \in Getters : GetterClass(g) = "LivepeerImageJobGetter"

NextTwoLocks ==
    \/ trigger_async_job("LivepeerT2I", 1)
    \/ SubmitSync("LivepeerT2I", 1)
    \/ \E j \in JobIds : ThreadStart(j)
    \/ \E j \in JobIds : ThreadExecute(j)
    \/ \E j \in JobIds : ThreadStore(j)
    \/ \E g \in Getters : ProbeEnterNodeState(g)
    \/ \E g \in Getters : ProbeExitNodeState(g)
    \/ \E g \in Getters : ProbeEnterStore(g)
    \/ \E g \in Getters : ProbeExitStore(g)
    \/ \E g \in Getters, job_id \in JobIds \cup {NoId} : GetterEnterNodeState(g, job_id)
    \/ \E g \in Getters : GetterExitNodeState(g)
    \/ \E g \in Getters : GetterEnterCleanup(g)
    \/ \E g \in Getters : GetterExitCleanup(g)
    \/ \E g \in Getters : GetterRead(g)
    \/ \E g \in Getters : GetterProcess(g)

SpecTwoLocks == InitTwoLocks /\ [][NextTwoLocks]_vars

\* the threads that take the two locks
LockActors ==
    {ProbeActor(g) : g \in Getters} \cup {GetterActor(g) : g \in Getters}
        \cup {Actor("thread", "", j) : j \in JobIds}

\* the lock that the next step of the actor enters, "" if none
Wants(a) ==
    CASE a.kind = "probe" ->
            IF probe[a.who].pc = "want_store" THEN "job_store" ELSE ""
      [] a.kind = "getter" ->
            IF getter[a.who].pc = "want_cleanup" THEN "job_store"
            ELSE IF getter[a.who].pc = "read" /\ getter[a.who].job_id # NoId
            THEN "job_store" ELSE ""
      [] a.kind = "thread" ->
            IF thread[a.id].pc \in {"start", "store"} THEN "job_store" ELSE ""

\* the step with which the holder of a lock leaves its block
LeaveStep ==
    \E g \in Getters :
        \/ ProbeExitNodeState(g)
        \/ ProbeExitStore(g)
        \/ GetterExitNodeState(g)
        \/ GetterExitCleanup(g)

\* C38: no thread holds the job-store lock and the node-state lock at the
\* same time, no thread waits for one of them while it holds the other, and
\* the holder of a lock can always leave its block, so that probes, getter
\* calls and background threads cannot deadlock on the two locks
C38_LocksNeverNested ==
    /\ \A a \in LockActors :
          /\ ~(job_store_lock = a /\ node_state_lock = a)
          /\ Wants(a) = "job_store" => node_state_lock # a
          /\ Wants(a) = "node_state" => job_store_lock # a
    /\ (job_store_lock # Free \/ node_state_lock # Free) => ENABLED LeaveStep

\* both locks are held, by different threads: a probe is inside its block of
\* the job-store lock while a getter call is inside its block of the
\* node-state lock, and a background thread waits for the job-store lock
C38_Witness ==
    /\ job_store_lock = ProbeActor("g1")
    /\ node_state_lock = GetterActor("g2")
    /\ \E j \in JobIds : Wants(Actor("thread", "", j)) = "job_store"

\* ------------------------------------------------------------------------
\* SpecBatch: the BatchIterator objects of the host and their executions
\* ------------------------------------------------------------------------
Min(a, b) == IF a < b THEN a ELSE b

Max(a, b) == IF a > b THEN a ELSE b

\* iterate_batch lines 40-78 on the entry state of the object's id, NoState
\* when there is none: the index of the returned element and the entry that
\* is stored
iterate_batch_entry(state, batch_size, bounce_mode, reset_counter) ==
    LET s0 == IF state = NoState
              THEN [index |-> 0, direction |-> 1, last_batch_size |-> batch_size]
              ELSE state
        s1 == IF reset_counter \/ batch_size # s0.last_batch_size
              THEN [index |-> 0, direction |-> 1, last_batch_size |-> batch_size]
              ELSE s0
        index == Max(0, Min(s1.index, batch_size - 1))
        direction == IF ~bounce_mode THEN s1.direction
                     ELSE IF index = 0 /\ s1.direction < 0 THEN 1
                     ELSE IF index >= batch_size - 1 /\ s1.direction > 0 THEN -1
                     ELSE s1.direction
    IN  [returned |-> index,
         state |-> [index |-> IF bounce_mode THEN index + direction
                              ELSE (index + 1) % batch_size,
                    direction |-> direction,
                    last_batch_size |-> batch_size]]

\* the host creates a BatchIterator object: its id is one that no existing
\* object has
NewInstance(i) ==
    /\ instances[i] = NoInstance
    /\ \E id \in Ids :
          /\ \A o \in Instances : instances[o].id # id
          /\ instances' = [instances EXCEPT
                              ![i] = [NoInstance EXCEPT !.id = id,
                                         !.fresh = (batch_iterators[id] = NoState)]]
    /\ UNCHANGED <<batch_iterators, storeVars, event, probeVars, svcVars>>
    /\ UNCHANGED <<retryVars, interrupted, throw_errors>>

\* the host drops the object (the node is removed or the workflow is
\* replaced) and the object is deallocated; _batch_iterators keeps its entry
DeleteInstance(i) ==
    /\ instances[i] # NoInstance
    /\ instances' = [instances EXCEPT ![i] = NoInstance]
    /\ UNCHANGED <<batch_iterators, storeVars, event, probeVars, svcVars>>
    /\ UNCHANGED <<retryVars, interrupted, throw_errors>>

\* iterate_batch(images, bounce_mode, reset_counter) on object i with
\* images.shape[0] = batch_size
iterate_batch(i, batch_size, bounce_mode, reset_counter) ==
    /\ instances[i] # NoInstance
    /\ instances[i].count < MaxRuns
    /\ LET instance_id == instances[i].id
           r == iterate_batch_entry(batch_iterators[instance_id], batch_size, bounce_mode,
                                    reset_counter)
       IN  /\ batch_iterators' = [batch_iterators EXCEPT ![instance_id] = r.state]
           /\ instances' = [instances EXCEPT
                 ![i].count = @ + 1,
                 ![i].returned = r.returned,
                 ![i].batch_size = IF instances[i].count = 0 THEN batch_size ELSE @,
                 ![i].bounce_mode = IF instances[i].count = 0 THEN bounce_mode ELSE @,
                 ![i].uniform =
                     IF instances[i].count = 0 THEN ~reset_counter
                     ELSE /\ @
                          /\ ~reset_counter
                          /\ batch_size = instances[i].batch_size
                          /\ bounce_mode = instances[i].bounce_mode]
    /\ UNCHANGED <<storeVars, event, probeVars, svcVars>>
    /\ UNCHANGED <<retryVars, interrupted, throw_errors>>

NextBatch ==
    \/ \E i \in Instances : NewInstance(i)
    \/ \E i \in Instances : DeleteInstance(i)
    \/ \E i \in Instances, batch_size \in 1..MaxBatch, bounce_mode \in BOOLEAN,
          reset_counter \in BOOLEAN :
            iterate_batch(i, batch_size, bounce_mode, reset_counter)

SpecBatch == InitServiceSpec /\ [][NextBatch]_vars

\* object i has just been executed, and every execution of it so far had the
\* same batch size, the same mode and reset_counter false
Executed(i) ==
    /\ instances'[i].count = instances[i].count + 1
    /\ instances'[i].uniform

\* the index of the k-th element of 0, 1, ..., n-1, n-2, ..., 1, 0, 1, ...
BounceIndex(k, n) ==
    LET pos == k % (2 * n - 2)
    IN  IF pos < n THEN pos ELSE 2 * n - 2 - pos

\* C39: in cycle mode, with a constant batch size n >= 1 and reset_counter
\* false, the k-th execution of a BatchIterator object (k = 0, 1, 2, ...)
\* returns the element at index k mod n
C39_CycleReturnsKModN ==
    [][\A i \in Instances :
          (Executed(i) /\ ~instances'[i].bounce_mode)
              => instances'[i].returned = instances[i].count % instances'[i].batch_size]_vars

\* the same for the objects whose id was no key of _batch_iterators when
\* they were created
C39_FreshCycleReturnsKModN ==
    [][\A i \in Instances :
          (Executed(i) /\ ~instances'[i].bounce_mode /\ instances[i].fresh)
              => instances'[i].returned = instances[i].count % instances'[i].batch_size]_vars

\* C40: in bounce mode, with a constant batch size n >= 2 and reset_counter
\* false, the indices returned by a BatchIterator object follow 0, 1, ...,
\* n-1, n-2, ..., 1, 0, 1, ...: each execution moves one position, the
\* direction reverses only at the two ends, and the index kept between the
\* executions stays within 0..n-1
C40_BounceSweeps ==
    [][\A i \in Instances :
          (Executed(i) /\ instances'[i].bounce_mode /\ instances'[i].batch_size >= 2)
              => /\ instances'[i].returned
                        = BounceIndex(instances[i].count, instances'[i].batch_size)
                 /\ batch_iterators'[instances[i].id].index
                        \in 0..(instances'[i].batch_size - 1)]_vars

\* the same for the objects whose id was no key of _batch_iterators when
\* they were created
C40_FreshBounceSweeps ==
    [][\A i \in Instances :
          (Executed(i) /\ instances'[i].bounce_mode /\ instances'[i].batch_size >= 2
             /\ instances[i].fresh)
              => /\ instances'[i].returned
                        = BounceIndex(instances[i].count, instances'[i].batch_size)
                 /\ batch_iterators'[instances[i].id].index
                        \in 0..(instances'[i].batch_size - 1)]_vars
====
